---- MODULE Spec2Model ----
(***************************************************************************)
(* A model of the product identification and cross-platform search core:   *)
(* ProductSearchEngine (backend/product_search.py), the price comparison   *)
(* of api_price (backend/app.py), the signal fusion and the analysis of    *)
(* EnhancedProductDetector (backend/enhanced_detection.py), the image and  *)
(* search routes of backend/app.py that call them, and the account routes  *)
(* setup_admin, login, verify_token and update_user of backend/app.py.     *)
(*                                                                         *)
(* Strings are sequences of one-character strings, so that lowercasing,    *)
(* punctuation stripping and splitting are computed character by           *)
(* character.  Confidences are hundredths (0.3 is 30), prices are          *)
(* hundredths of a rupee.                                                  *)
(***************************************************************************)
EXTENDS Integers, Sequences, FiniteSets, TLC

VARIABLES
    mode,               \* which operation of the program the behaviour runs
    pc,                 \* position inside that operation
    products,           \* remove_duplicates: the argument
    unique_products,    \* remove_duplicates / search_all_platforms: the returned list
    remote,             \* what each retailer site does when it is asked
    started,            \* adapters whose call has been made
    finished,           \* adapters whose call has returned
    raised,             \* adapters whose call propagated an exception
    amazon_products,    \* search_all_platforms: local
    flipkart_products,  \* search_all_platforms: local
    google_products,    \* search_all_platforms: local
    all_products,       \* search_all_platforms: local
    adapter_call,       \* a direct adapter call: the function, the site, max_results
    adapter_outcome,    \* what that call did: returned value or exception
    driver_sessions,    \* a direct adapter call: the Chrome sessions that are open
    request,            \* api_price: the request and what the two sites do
    response,           \* api_price: the response
    yolo_detections,    \* combine_detection_results: argument
    caption,            \* combine_detection_results: argument
    extracted_texts,    \* combine_detection_results: argument
    identified_products,\* combine_detection_results: the returned list
    brand_info,         \* combine_detection_results: local, from extract_brand_info
    invoked,            \* the calls made so far, in order, with argument and result
    enhanced_results,   \* analyze_and_identify_products: local
    results,            \* what the detector's entry point returned to the route
    users_collection,   \* db['users']: the documents, in insertion order
    handlers,           \* the requests of the account routes: position, locals, answer
    tokens              \* the users whose token a client holds

dedupVars == <<products>>
aggregatorVars == <<remote, started, finished, raised, amazon_products,
                    flipkart_products, google_products, all_products>>
adapterVars == <<adapter_call, adapter_outcome, driver_sessions>>
priceVars == <<request, response>>
fusionVars == <<yolo_detections, caption, extracted_texts, identified_products,
                brand_info>>

orchestratorVars == <<invoked, enhanced_results, results>>
authVars == <<users_collection, handlers, tokens>>

vars == <<mode, pc, unique_products, dedupVars, aggregatorVars, adapterVars,
          priceVars, fusionVars, orchestratorVars, authVars>>

\* the variables of the operations that are not running
DedupIdle == products = <<>>
AggregatorIdle ==
    /\ remote = <<>>
    /\ started = {}
    /\ finished = {}
    /\ raised = {}
    /\ amazon_products = <<>>
    /\ flipkart_products = <<>>
    /\ google_products = <<>>
    /\ all_products = <<>>
AdapterIdle == adapter_call = <<>> /\ adapter_outcome = <<>> /\ driver_sessions = 0
PriceIdle == request = <<>> /\ response = <<>>
FusionIdle ==
    /\ yolo_detections = <<>>
    /\ caption = <<>>
    /\ extracted_texts = <<>>
    /\ identified_products = <<>>
    /\ brand_info = <<>>
OrchestratorIdle == invoked = <<>> /\ enhanced_results = <<>> /\ results = <<>>
AuthIdle == users_collection = <<>> /\ handlers = <<>> /\ tokens = {}

-----------------------------------------------------------------------------
(* Strings *)

UpperLetters == <<"A","B","C","D","E","F","G","H","I","J","K","L","M",
                  "N","O","P","Q","R","S","T","U","V","W","X","Y","Z">>
LowerLetters == <<"a","b","c","d","e","f","g","h","i","j","k","l","m",
                  "n","o","p","q","r","s","t","u","v","w","x","y","z">>
Digits == {"0","1","2","3","4","5","6","7","8","9"}

Range(s) == {s[i] : i \in DOMAIN s}

\* str.lower(), one character
LowerChar(c) ==
    IF \E i \in DOMAIN UpperLetters : UpperLetters[i] = c
    THEN LowerLetters[CHOOSE i \in DOMAIN UpperLetters : UpperLetters[i] = c]
    ELSE c

\* str.lower()
Lower(s) == [i \in DOMAIN s |-> LowerChar(s[i])]

\* the regular expression classes \w and \s
IsWordChar(c) == c \in Range(UpperLetters) \cup Range(LowerLetters) \cup Digits \cup {"_"}
IsSpace(c) == c = " "

\* re.sub(r'[^\w\s]', '', s)
StripPunct(s) == SelectSeq(s, LAMBDA c : IsWordChar(c) \/ IsSpace(c))

\* str.split(): the maximal runs of non-whitespace characters, in order
RECURSIVE SplitFrom(_, _, _)
SplitFrom(s, i, cur) ==
    IF i > Len(s)
    THEN IF cur = <<>> THEN <<>> ELSE <<cur>>
    ELSE IF IsSpace(s[i])
         THEN (IF cur = <<>> THEN <<>> ELSE <<cur>>) \o SplitFrom(s, i + 1, <<>>)
         ELSE SplitFrom(s, i + 1, Append(cur, s[i]))

Split(s) == SplitFrom(s, 1, <<>>)

-----------------------------------------------------------------------------
(* ProductSearchEngine.remove_duplicates *)

\* a variant of NormalizedTitle that leaves the letter case as it is
NormalizedTitle_KeepCase(title) == StripPunct(title)

\* normalized_title = re.sub(r'[^\w\s]', '', product['title'].lower())
NormalizedTitle(title) == StripPunct(Lower(title))

\* set(normalized_title.split())
TitleWords(normalized) == Range(Split(normalized))

Max2(a, b) == IF a >= b THEN a ELSE b

\* a variant of Similar that also counts an overlap of exactly 60% as similar
Similar_AtLeast(title_words, seen_words) ==
    10 * Cardinality(title_words \cap seen_words)
        >= 6 * Max2(Cardinality(title_words), 1)

\* len(title_words.intersection(seen_words)) / max(len(title_words), 1) > 0.6 ;
\* over the integers: n / d > 6/10  iff  10 * n > 6 * d
Similar(title_words, seen_words) ==
    10 * Cardinality(title_words \cap seen_words)
        > 6 * Max2(Cardinality(title_words), 1)

\* the inner loop over seen_titles: is_duplicate
IsDuplicate(title_words, seen_titles) ==
    \E seen_title \in seen_titles : Similar(title_words, TitleWords(seen_title))

\* the outer loop, from position i on, with the loop's two accumulators
RECURSIVE remove_duplicates_from(_, _, _, _)
remove_duplicates_from(ps, i, unique, seen_titles) ==
    IF i > Len(ps)
    THEN unique
    ELSE LET normalized_title == NormalizedTitle(ps[i].title)
             title_words == TitleWords(normalized_title)
         IN  IF IsDuplicate(title_words, seen_titles)
             THEN remove_duplicates_from(ps, i + 1, unique, seen_titles)
             ELSE remove_duplicates_from(ps, i + 1, Append(unique, ps[i]),
                                       seen_titles \cup {normalized_title})

remove_duplicates(ps) == remove_duplicates_from(ps, 1, <<>>, {})

-----------------------------------------------------------------------------
(* The search adapters of ProductSearchEngine *)

\* Python's None where a string is expected: a selector or find() that matched
\* nothing.  It differs from every string, the empty string included.
None == <<"None">>
EmptyStr == <<>>
NA == <<"N","/","A">>
AmazonProduct == <<"A","m","a","z","o","n"," ","P","r","o","d","u","c","t">>

\* what a call does: it returns a value or propagates an exception
Returned(v) == [raised |-> FALSE, value |-> v]
Raised == [raised |-> TRUE, value |-> <<>>]

\* s[:n]
Take(s, n) == SubSeq(s, 1, IF Len(s) < n THEN Len(s) ELSE n)

\* what a retailer site does when asked: it answers with a page of results, it
\* refuses (a transport error), or it never answers; for Google Shopping the
\* Chrome driver may also fail to start
Page(blocks) == [kind |-> "page", results |-> blocks]
Refuses == [kind |-> "error", results |-> <<>>]
Silent == [kind |-> "silent", results |-> <<>>]
NoDriver == [kind |-> "no_driver", results |-> <<>>]
NotAsked == [kind |-> "not_asked", results |-> <<>>]

\* One result block of a results page: the text of the title element and of the
\* price element (None when no selector matches), the src of the image element
\* (None when there is no image element), and whether reading the block throws.
RawResult(title, price, image, broken) ==
    [title |-> title, price |-> price, image |-> image, broken |-> broken]

Listing(title, price, image_url, retailer) ==
    [title |-> title, price |-> price, image_url |-> image_url, retailer |-> retailer]

\* the body of one pass of "for result in search_results[:max_results]" of
\* search_amazon_products: the listings it appends (none or one)
amazon_result(r) ==
    IF r.broken THEN <<>>                       \* except Exception: continue
    ELSE LET title == IF r.title # None THEN r.title ELSE NA
             price == IF r.price # None THEN r.price ELSE NA
             image_url == IF r.image # None THEN r.image ELSE EmptyStr
         IN  IF title # NA \/ image_url # EmptyStr
             THEN <<Listing(IF title # NA THEN title ELSE AmazonProduct,
                            price, image_url, "Amazon India")>>
             ELSE <<>>

\* the same for search_flipkart_products
flipkart_result(r) ==
    IF r.broken THEN <<>>
    ELSE LET title == IF r.title # None THEN r.title ELSE NA
             price == IF r.price # None THEN r.price ELSE NA
             image_url == IF r.image # None THEN r.image ELSE EmptyStr
         IN  IF title # NA /\ image_url # EmptyStr
             THEN <<Listing(title, price, image_url, "Flipkart")>>
             ELSE <<>>

\* the same for search_google_shopping: find_element throws when the element
\* is missing, and the block is skipped
google_result(r) ==
    IF r.broken \/ r.title = None \/ r.price = None \/ r.image = None THEN <<>>
    ELSE LET title == r.title
             image_url == r.image
         IN  IF title # NA /\ image_url # EmptyStr
             THEN <<Listing(title, r.price, image_url, "Google Shopping")>>
             ELSE <<>>

RECURSIVE amazon_results(_)
amazon_results(rs) ==
    IF rs = <<>> THEN <<>> ELSE amazon_result(Head(rs)) \o amazon_results(Tail(rs))

RECURSIVE flipkart_results(_)
flipkart_results(rs) ==
    IF rs = <<>> THEN <<>> ELSE flipkart_result(Head(rs)) \o flipkart_results(Tail(rs))

RECURSIVE google_results(_)
google_results(rs) ==
    IF rs = <<>> THEN <<>> ELSE google_result(Head(rs)) \o google_results(Tail(rs))

\* inside the outer try of search_amazon_products: requests.get(url, timeout=10)
\* throws on a transport error and, after 10 seconds, on a site that is silent
amazon_try(site, max_results) ==
    IF site.kind # "page" THEN Raised
    ELSE Returned(amazon_results(Take(site.results, max_results)))

flipkart_try(site, max_results) ==
    IF site.kind # "page" THEN Raised
    ELSE Returned(flipkart_results(Take(site.results, max_results)))

\* inside the outer try of search_google_shopping: no driver returns [],
\* driver.get throws on a transport error
google_try(site, max_results) ==
    IF site.kind = "no_driver" THEN Returned(<<>>)
    ELSE IF site.kind # "page" THEN Raised
    ELSE Returned(google_results(Take(site.results, max_results)))

\* a variant of the outer handler that lets the exception through
except_return_empty_Propagates(outcome) == outcome

\* except Exception as e: ... return []
except_return_empty(outcome) == IF outcome.raised THEN Returned(<<>>) ELSE outcome

search_amazon_products(site, max_results) ==
    except_return_empty(amazon_try(site, max_results))

search_flipkart_products(site, max_results) ==
    except_return_empty(flipkart_try(site, max_results))

search_google_shopping(site, max_results) ==
    except_return_empty(google_try(site, max_results))

\* setup_driver: whether webdriver.Chrome(...) starts a session and the driver
\* is returned; None comes back when it throws
setup_driver(site) == site.kind # "no_driver"

\* whether search_google_shopping reaches its driver.quit(): the statement
\* follows the loop inside the outer try, so it runs when neither driver.get
\* nor find_elements threw; an exception inside the loop is caught there
reaches_driver_quit(site) == site.kind = "page"

\* the Chrome sessions a call of search_google_shopping has started and not
\* quit when it returns
sessions_left_open(site) ==
    IF setup_driver(site) /\ ~ reaches_driver_quit(site) THEN 1 ELSE 0

\* Whether the call to an adapter comes back when the site is in state site.
\* requests.get carries timeout=10; driver.get carries no timeout, so it comes
\* back only when the site answers or refuses.
amazon_comes_back(site) == TRUE
flipkart_comes_back(site) == TRUE
google_comes_back(site) == site.kind # "silent"

-----------------------------------------------------------------------------
(* The price adapters of app.py: scrape_amazon_india, scrape_flipkart *)

Rupee == "₹"

\* price texts as the sites show them
P100 == <<"₹","1","0","0">>
P150 == <<"₹","1","5","0">>
P1100_50 == <<"₹","1",",","1","0","0",".","5","0">>
PFree == <<"F","r","e","e">>

NoResultsFound == <<"N","o"," ","r","e","s","u","l","t","s"," ","f","o","u","n","d">>
Unknown == <<"U","n","k","n","o","w","n">>
ErrorTitle == <<"E","r","r","o","r">>
NoPriceFound == <<"N","o"," ","p","r","i","c","e"," ","f","o","u","n","d">>
PriceParseError == <<"P","r","i","c","e"," ","p","a","r","s","e"," ","e","r","r","o","r">>

\* a price that is None, and a price that is a number (in hundredths of a rupee)
NoPrice == <<>>
PriceOf(n) == <<n>>

\* str.replace(old, ""), old one character
Remove(s, old) == SelectSeq(s, LAMBDA c : c # old)

\* str.strip(), and the strip float() itself applies
RECURSIVE StripLeft(_)
StripLeft(s) == IF s # <<>> /\ IsSpace(Head(s)) THEN StripLeft(Tail(s)) ELSE s

RECURSIVE StripRight(_)
StripRight(s) ==
    IF s # <<>> /\ IsSpace(s[Len(s)]) THEN StripRight(SubSeq(s, 1, Len(s) - 1)) ELSE s

Strip(s) == StripLeft(StripRight(s))

DigitValue(c) ==
    CASE c = "0" -> 0 [] c = "1" -> 1 [] c = "2" -> 2 [] c = "3" -> 3 [] c = "4" -> 4
      [] c = "5" -> 5 [] c = "6" -> 6 [] c = "7" -> 7 [] c = "8" -> 8 [] c = "9" -> 9

RECURSIVE DigitsValue(_)
DigitsValue(s) ==
    IF s = <<>> THEN 0 ELSE 10 * DigitsValue(SubSeq(s, 1, Len(s) - 1)) + DigitValue(s[Len(s)])

AllDigits(s) == \A i \in DOMAIN s : s[i] \in Digits

\* float(raw) for the decimal notations digits, digits.digits (up to two
\* decimals), in hundredths; <<>> stands for ValueError
ParseFloat(raw) ==
    LET t == Strip(raw)
        dots == {i \in DOMAIN t : t[i] = "."}
    IN  IF t = <<>> THEN <<>>
        ELSE IF dots = {} THEN (IF AllDigits(t) THEN <<100 * DigitsValue(t)>> ELSE <<>>)
        ELSE IF Cardinality(dots) > 1 THEN <<>>
        ELSE LET d == CHOOSE i \in dots : TRUE
                 whole == SubSeq(t, 1, d - 1)
                 frac == SubSeq(t, d + 1, Len(t))
             IN  IF ~ AllDigits(whole) \/ ~ AllDigits(frac) \/ Len(t) = 1 \/ Len(frac) > 2
                 THEN <<>>
                 ELSE <<100 * DigitsValue(whole)
                          + (IF Len(frac) = 1 THEN 10 ELSE 1) * DigitsValue(frac)>>

\* the dictionaries the price adapters return
PriceListing(retailer, title, price) ==
    [retailer |-> retailer, title |-> title, price |-> price]
PricedListing(retailer, title, price) ==
    [retailer |-> retailer, title |-> title, price |-> price, currency |-> Rupee]
ErrorListing(retailer) ==
    [retailer |-> retailer, title |-> ErrorTitle, price |-> NoPrice, error |-> "str(e)"]

\* inside the try of scrape_amazon_india; the first result block of the page
scrape_amazon_india_try(site) ==
    IF site.kind # "page" THEN Raised
    ELSE IF site.results # <<>> /\ Head(site.results).broken THEN Raised
    ELSE IF site.results = <<>>
    THEN Returned(PriceListing("Amazon India", NoResultsFound, NoPrice))
    ELSE LET result == Head(site.results)
             title == IF result.title # None THEN result.title ELSE Unknown
         IN  IF result.price = None
             THEN Returned(PriceListing("Amazon India", title, NoPrice))
             ELSE LET raw == Remove(Remove(result.price, Rupee), ",")
                      price == ParseFloat(raw)
                  IN  IF price # <<>>
                      THEN Returned(PricedListing("Amazon India", title, PriceOf(price[1])))
                      ELSE Returned(PriceListing("Amazon India", title, NoPrice))

\* inside the try of scrape_flipkart; price and title are the texts of the
\* first matching selector
scrape_flipkart_try(site) ==
    IF site.kind # "page" THEN Raised
    ELSE IF site.results # <<>> /\ Head(site.results).broken THEN Raised
    ELSE IF site.results = <<>> \/ Head(site.results).price = None
    THEN Returned(PriceListing("Flipkart", NoPriceFound, NoPrice))
    ELSE LET result == Head(site.results)
             raw == Remove(Remove(Strip(result.price), Rupee), ",")
             price == ParseFloat(raw)
             title == IF result.title # None THEN result.title ELSE Unknown
         IN  IF price = <<>>
             THEN Returned(PriceListing("Flipkart", PriceParseError, NoPrice))
             ELSE Returned(PricedListing("Flipkart", title, PriceOf(price[1])))

\* a variant of the handler of the price adapters that lets the exception through
except_return_error_Propagates(outcome, retailer) == outcome

\* except Exception as e: return {"retailer": ..., "title": "Error", "price": None, "error": str(e)}
except_return_error(outcome, retailer) ==
    IF outcome.raised THEN Returned(ErrorListing(retailer)) ELSE outcome

scrape_amazon_india(site) ==
    except_return_error(scrape_amazon_india_try(site), "Amazon India")

scrape_flipkart(site) ==
    except_return_error(scrape_flipkart_try(site), "Flipkart")

-----------------------------------------------------------------------------
(* Inputs of remove_duplicates *)

MaxProducts == 3

SeqsUpTo(S, n) == UNION {[1..k -> S] : k \in 0..n}

T_abc     == <<"a"," ","b"," ","c">>
T_ABc     == <<"A",","," ","B"," ","c","!">>
T_abcde   == <<"a"," ","b"," ","c"," ","d"," ","e">>
T_abcd    == <<"a"," ","b"," ","c"," ","d">>
T_dbx     == <<"d"," ","b"," ","x">>
T_punct   == <<"!","!">>
T_aab     == <<"a"," "," ","a"," ","b">>
T_a_b_c   == <<"a","-","b"," ","c">>

Titles == {T_abc, T_ABc, T_abcde, T_abcd, T_dbx, T_punct, T_aab, T_a_b_c}

DedupListings == {[title |-> t, retailer |-> "Amazon India"] : t \in Titles}

DedupInit ==
    /\ mode = "remove_duplicates"
    /\ pc = "call"
    /\ products \in SeqsUpTo(DedupListings, MaxProducts)
    /\ unique_products = <<>>
    /\ AggregatorIdle /\ AdapterIdle /\ PriceIdle /\ FusionIdle /\ OrchestratorIdle /\ AuthIdle

\* one call of remove_duplicates(products)
RemoveDuplicatesCall ==
    /\ mode = "remove_duplicates"
    /\ pc = "call"
    /\ unique_products' = remove_duplicates(products)
    /\ pc' = "done"
    /\ UNCHANGED <<mode, products>>
    /\ UNCHANGED <<aggregatorVars, adapterVars, authVars, priceVars, fusionVars, orchestratorVars>>

DedupNext == RemoveDuplicatesCall

SpecDedup == DedupInit /\ [][DedupNext]_vars

-----------------------------------------------------------------------------
(* ProductSearchEngine.search_all_platforms *)

Adapters == {"amazon", "flipkart", "google"}

\* def search_all_platforms(self, product_name, max_results_per_platform=3)
max_results_per_platform == 3

MaxPageResults == 2

U_img == <<"u">>

\* result blocks with a title, a price and an image, which every adapter emits
FullResults ==
    {RawResult(t, P100, U_img, FALSE) : t \in {T_abc, T_abcd, T_dbx}}

\* what a site may do when search_all_platforms asks it
SiteStates(a) ==
    {Page(rs) : rs \in SeqsUpTo(FullResults, MaxPageResults)}
        \cup {Refuses, Silent}
        \cup (IF a = "google" THEN {NoDriver} ELSE {})

\* a variant of list.extend that puts the new listings in front
Extend_InFront(list, more) == more \o list

\* all_products.extend(more)
Extend(list, more) == list \o more

Init ==
    /\ mode = "search_all_platforms"
    /\ pc = "amazon"
    /\ products = <<>>
    /\ unique_products = <<>>
    /\ remote = [a \in Adapters |-> NotAsked]
    /\ started = {}
    /\ finished = {}
    /\ raised = {}
    /\ amazon_products = <<>>
    /\ flipkart_products = <<>>
    /\ google_products = <<>>
    /\ all_products = <<>>
    /\ AdapterIdle /\ PriceIdle /\ FusionIdle /\ OrchestratorIdle /\ AuthIdle

\* the call of adapter a is made; the site is in one of its states
Call(a, at, next) ==
    /\ mode = "search_all_platforms"
    /\ pc = at
    /\ \E site \in SiteStates(a) : remote' = [remote EXCEPT ![a] = site]
    /\ started' = started \cup {a}
    /\ pc' = next
    /\ UNCHANGED <<mode, products, unique_products, finished, raised, amazon_products,
                   flipkart_products, google_products, all_products>>
    /\ UNCHANGED <<adapterVars, authVars, priceVars, fusionVars, orchestratorVars>>

\* amazon_products = self.search_amazon_products(product_name, max_results_per_platform)
CallAmazon == Call("amazon", "amazon", "amazon_wait")

\* flipkart_products = self.search_flipkart_products(...)
CallFlipkart == Call("flipkart", "flipkart", "flipkart_wait")

\* google_products = self.search_google_shopping(...)
CallGoogle == Call("google", "google", "google_wait")

\* search_amazon_products returns; all_products.extend(amazon_products)
AmazonReturns ==
    /\ mode = "search_all_platforms"
    /\ pc = "amazon_wait"
    /\ amazon_comes_back(remote["amazon"])
    /\ LET out == search_amazon_products(remote["amazon"], max_results_per_platform)
       IN  /\ finished' = finished \cup {"amazon"}
           /\ IF out.raised
              THEN /\ raised' = raised \cup {"amazon"}
                   /\ pc' = "raised"
                   /\ UNCHANGED <<amazon_products, all_products>>
              ELSE /\ amazon_products' = out.value
                   /\ all_products' = Extend(all_products, out.value)
                   /\ pc' = "flipkart"
                   /\ UNCHANGED raised
    /\ UNCHANGED <<mode, products, unique_products, remote, started,
                   flipkart_products, google_products>>
    /\ UNCHANGED <<adapterVars, authVars, priceVars, fusionVars, orchestratorVars>>

\* search_flipkart_products returns; all_products.extend(flipkart_products)
FlipkartReturns ==
    /\ mode = "search_all_platforms"
    /\ pc = "flipkart_wait"
    /\ flipkart_comes_back(remote["flipkart"])
    /\ LET out == search_flipkart_products(remote["flipkart"], max_results_per_platform)
       IN  /\ finished' = finished \cup {"flipkart"}
           /\ IF out.raised
              THEN /\ raised' = raised \cup {"flipkart"}
                   /\ pc' = "raised"
                   /\ UNCHANGED <<flipkart_products, all_products>>
              ELSE /\ flipkart_products' = out.value
                   /\ all_products' = Extend(all_products, out.value)
                   /\ pc' = "google"
                   /\ UNCHANGED raised
    /\ UNCHANGED <<mode, products, unique_products, remote, started,
                   amazon_products, google_products>>
    /\ UNCHANGED <<adapterVars, authVars, priceVars, fusionVars, orchestratorVars>>

\* search_google_shopping returns; all_products.extend(google_products);
\* unique_products = self.remove_duplicates(all_products); return unique_products
GoogleReturns ==
    /\ mode = "search_all_platforms"
    /\ pc = "google_wait"
    /\ google_comes_back(remote["google"])
    /\ LET out == search_google_shopping(remote["google"], max_results_per_platform)
       IN  /\ finished' = finished \cup {"google"}
           /\ IF out.raised
              THEN /\ raised' = raised \cup {"google"}
                   /\ pc' = "raised"
                   /\ UNCHANGED <<google_products, all_products, unique_products>>
              ELSE /\ google_products' = out.value
                   /\ all_products' = Extend(all_products, out.value)
                   /\ unique_products' = remove_duplicates(all_products')
                   /\ pc' = "done"
                   /\ UNCHANGED raised
    /\ UNCHANGED <<mode, products, remote, started, amazon_products, flipkart_products>>
    /\ UNCHANGED <<adapterVars, authVars, priceVars, fusionVars, orchestratorVars>>

Next ==
    \/ CallAmazon
    \/ AmazonReturns
    \/ CallFlipkart
    \/ FlipkartReturns
    \/ CallGoogle
    \/ GoogleReturns

Spec == Init /\ [][Next]_vars

-----------------------------------------------------------------------------
(* A direct call of one adapter, as api_recommend, api_price and
   search_all_platforms make it *)

MaxRawResults == 3

\* result blocks of a search page: with or without a title element, with no
\* image element, an image without src or an image with src; one without a
\* price element; one whose processing throws
SearchResults ==
    {RawResult(t, P100, i, FALSE) : t \in {None, T_abc}, i \in {None, EmptyStr, U_img}}
        \cup {RawResult(T_abc, None, U_img, FALSE), RawResult(T_abc, P100, U_img, TRUE)}

SearchFunctions ==
    {"search_amazon_products", "search_flipkart_products", "search_google_shopping"}

SearchSites(fn) ==
    {Page(rs) : rs \in SeqsUpTo(SearchResults, MaxRawResults)}
        \cup {Refuses, Silent}
        \cup (IF fn = "search_google_shopping" THEN {NoDriver} ELSE {})

\* max_results as the callers pass it: 2 in analyze_and_identify_products, 3 in
\* search_uploaded_image and api_search_product
MaxResultsArguments == {2, 3}

PriceFunctions == {"scrape_amazon_india", "scrape_flipkart"}

\* the first result block of a price page
PriceResults ==
    {RawResult(t, p, None, FALSE) : t \in {None, T_abc}, p \in {None, P100, P150, P1100_50, PFree}}
        \cup {RawResult(T_abc, P100, None, TRUE)}

PriceSites ==
    {Page(<<>>)} \cup {Page(<<r>>) : r \in PriceResults} \cup {Refuses, Silent}

AdapterCalls ==
    {[fn |-> fn, site |-> site, max_results |-> m] :
        fn \in SearchFunctions, site \in UNION {SearchSites(f) : f \in SearchFunctions},
        m \in MaxResultsArguments}
    \cup {[fn |-> fn, site |-> site] : fn \in PriceFunctions, site \in PriceSites}

AdapterInit ==
    /\ mode = "adapter"
    /\ pc = "call"
    /\ adapter_call \in AdapterCalls
    /\ adapter_call.fn \in SearchFunctions => adapter_call.site \in SearchSites(adapter_call.fn)
    /\ adapter_outcome = <<>>
    /\ driver_sessions = 0
    /\ unique_products = <<>>
    /\ DedupIdle /\ AggregatorIdle /\ PriceIdle /\ FusionIdle /\ OrchestratorIdle /\ AuthIdle

\* the call ends in outcome out, with opened more Chrome sessions open
AdapterEndsWith(out, opened) ==
    /\ adapter_outcome' = out
    /\ driver_sessions' = driver_sessions + opened
    /\ pc' = IF out.raised THEN "raised" ELSE "returned"
    /\ UNCHANGED <<mode, adapter_call, unique_products>>
    /\ UNCHANGED <<dedupVars, aggregatorVars, priceVars, authVars, fusionVars, orchestratorVars>>

\* the call ends in outcome out and touches no Chrome session
AdapterEnds(out) == AdapterEndsWith(out, 0)

SearchAmazonCall ==
    /\ mode = "adapter" /\ pc = "call"
    /\ adapter_call.fn = "search_amazon_products"
    /\ amazon_comes_back(adapter_call.site)
    /\ AdapterEnds(search_amazon_products(adapter_call.site, adapter_call.max_results))

SearchFlipkartCall ==
    /\ mode = "adapter" /\ pc = "call"
    /\ adapter_call.fn = "search_flipkart_products"
    /\ flipkart_comes_back(adapter_call.site)
    /\ AdapterEnds(search_flipkart_products(adapter_call.site, adapter_call.max_results))

SearchGoogleCall ==
    /\ mode = "adapter" /\ pc = "call"
    /\ adapter_call.fn = "search_google_shopping"
    /\ google_comes_back(adapter_call.site)
    /\ AdapterEndsWith(search_google_shopping(adapter_call.site, adapter_call.max_results),
                       sessions_left_open(adapter_call.site))

\* requests.get(url, headers=SCRAPING_HEADERS, timeout=10): the call comes back
ScrapeAmazonCall ==
    /\ mode = "adapter" /\ pc = "call"
    /\ adapter_call.fn = "scrape_amazon_india"
    /\ AdapterEnds(scrape_amazon_india(adapter_call.site))

ScrapeFlipkartCall ==
    /\ mode = "adapter" /\ pc = "call"
    /\ adapter_call.fn = "scrape_flipkart"
    /\ AdapterEnds(scrape_flipkart(adapter_call.site))

AdapterNext ==
    \/ SearchAmazonCall
    \/ SearchFlipkartCall
    \/ SearchGoogleCall
    \/ ScrapeAmazonCall
    \/ ScrapeFlipkartCall

SpecAdapter == AdapterInit /\ [][AdapterNext]_vars

-----------------------------------------------------------------------------
(* The selector lists of search_amazon_products and scrape_flipkart *)

\* for selector in selectors: elem = select_one(selector); if elem: ... break
\* matches[k] is the text of the first element selector k matches, None when
\* it matches no element; the loop stops at the first selector that matches
RECURSIVE first_match(_)
first_match(matches) ==
    IF matches = <<>> THEN None
    ELSE IF Head(matches) # None THEN Head(matches)
    ELSE first_match(Tail(matches))

\* the lengths of title_selectors and price_selectors of search_amazon_products
\* and of price_selectors and title_selectors of scrape_flipkart
AmazonTitleSelectors == 6
AmazonPriceSelectors == 4
FlipkartPriceSelectors == 3
FlipkartTitleSelectors == 3

\* what one selector gives: no element, an element without text, an element
\* with text
TitleTexts == {None, EmptyStr, T_abc}
PriceTexts == {None, EmptyStr, P100}

\* one result block of Amazon, selector by selector
AmazonBlock(title_matches, price_matches, image) ==
    [fn |-> "search_amazon_products", title_matches |-> title_matches,
     price_matches |-> price_matches, image |-> image]

\* the page of Flipkart, selector by selector
FlipkartPage(title_matches, price_matches) ==
    [fn |-> "scrape_flipkart", title_matches |-> title_matches,
     price_matches |-> price_matches]

SelectorInit ==
    /\ mode = "selectors"
    /\ pc = "call"
    /\ \/ \E t \in [1..AmazonTitleSelectors -> TitleTexts],
             p \in [1..AmazonPriceSelectors -> PriceTexts],
             i \in {None, U_img} :
               adapter_call = AmazonBlock(t, p, i)
       \/ \E t \in [1..FlipkartTitleSelectors -> TitleTexts],
             p \in [1..FlipkartPriceSelectors -> PriceTexts] :
               adapter_call = FlipkartPage(t, p)
    /\ adapter_outcome = <<>>
    /\ driver_sessions = 0
    /\ unique_products = <<>>
    /\ DedupIdle /\ AggregatorIdle /\ PriceIdle /\ FusionIdle /\ OrchestratorIdle /\ AuthIdle

\* search_amazon_products on a page of one result block
SelectAmazonResult ==
    /\ mode = "selectors" /\ pc = "call"
    /\ adapter_call.fn = "search_amazon_products"
    /\ AdapterEnds(search_amazon_products(
           Page(<<RawResult(first_match(adapter_call.title_matches),
                            first_match(adapter_call.price_matches),
                            adapter_call.image, FALSE)>>),
           max_results_per_platform))

\* scrape_flipkart on a page
SelectFlipkartPrice ==
    /\ mode = "selectors" /\ pc = "call"
    /\ adapter_call.fn = "scrape_flipkart"
    /\ AdapterEnds(scrape_flipkart(
           Page(<<RawResult(first_match(adapter_call.title_matches),
                            first_match(adapter_call.price_matches),
                            None, FALSE)>>)))

SelectorNext ==
    \/ SelectAmazonResult
    \/ SelectFlipkartPrice

SpecSelectors == SelectorInit /\ [][SelectorNext]_vars

-----------------------------------------------------------------------------
(* api_price and filter_by_specs of app.py *)

\* needle in hay, for strings
IsSubstring(needle, hay) ==
    \E i \in 0..(Len(hay) - Len(needle)) : SubSeq(hay, i + 1, i + Len(needle)) = needle

\* the truth value of an optional string: neither None nor ""
Truthy(x) == x # None /\ x # EmptyStr

\* filter_by_specs(data_list, storage, color)
RECURSIVE filter_by_specs(_, _, _)
filter_by_specs(data_list, storage, color) ==
    IF data_list = <<>> THEN <<>>
    ELSE LET data == Head(data_list)
             rest == filter_by_specs(Tail(data_list), storage, color)
             title == Lower(data.title)
         IN  IF data.price = NoPrice THEN rest
             ELSE IF Truthy(storage) /\ ~ IsSubstring(Lower(storage), title) THEN rest
             ELSE IF Truthy(color) /\ ~ IsSubstring(Lower(color), title) THEN rest
             ELSE <<data>> \o rest

\* min(prices_only), max(prices_only)
RECURSIVE MinOf(_)
MinOf(ns) ==
    IF Len(ns) = 1 THEN ns[1]
    ELSE LET m == MinOf(Tail(ns)) IN IF m < ns[1] THEN m ELSE ns[1]

RECURSIVE MaxOf(_)
MaxOf(ns) ==
    IF Len(ns) = 1 THEN ns[1]
    ELSE LET m == MaxOf(Tail(ns)) IN IF m > ns[1] THEN m ELSE ns[1]

\* a variant of FirstRetailerAt that takes the last listing at the price
FirstRetailerAt_Last(valid_prices, min_price) ==
    valid_prices[CHOOSE i \in DOMAIN valid_prices :
        /\ valid_prices[i].price[1] = min_price
        /\ \A j \in DOMAIN valid_prices : valid_prices[j].price[1] = min_price => j <= i].retailer

\* next(d['retailer'] for d in valid_prices if d['price'] == min_price)
RECURSIVE FirstRetailerAt(_, _)
FirstRetailerAt(valid_prices, min_price) ==
    IF Head(valid_prices).price[1] = min_price
    THEN Head(valid_prices).retailer
    ELSE FirstRetailerAt(Tail(valid_prices), min_price)

\* analysis = {}
NoAnalysis == <<>>

\* "Calculate price analysis": lines 859-874 of api_price
price_analysis(price_data) ==
    LET valid_prices == SelectSeq(price_data, LAMBDA d : d.price # NoPrice)
    IN  IF Len(valid_prices) >= 2
        THEN LET prices_only == [i \in DOMAIN valid_prices |-> valid_prices[i].price[1]]
                 min_price == MinOf(prices_only)
                 max_price == MaxOf(prices_only)
                 best_retailer == FirstRetailerAt(valid_prices, min_price)
             IN  <<[best_price |-> min_price,
                    best_retailer |-> best_retailer,
                    price_range |-> [min |-> min_price, max |-> max_price],
                    savings |-> IF max_price > min_price THEN max_price - min_price ELSE 0]>>
        ELSE NoAnalysis

S128 == <<"1","2","8","G","B">>
Black == <<"B","l","a","c","k">>
T_p128black == <<"P"," ","1","2","8","G","B"," ","B","l","a","c","k">>
T_p64 == <<"P"," ","6","4","G","B">>
NameP == <<"P">>

\* the first result block of the page each site shows for the query
ApiPriceResults ==
    {RawResult(t, p, None, FALSE) : t \in {T_p128black, T_p64}, p \in {None, P100, P150, PFree}}

ApiPriceSites == {Page(<<>>), Refuses} \cup {Page(<<r>>) : r \in ApiPriceResults}

\* the JSON body of the request, and the state of the two sites
ApiPriceRequests ==
    [product_name : {EmptyStr, <<" ">>, NameP},
     storage : {None, S128},
     color : {None, Black},
     sites : SUBSET {"amazon", "flipkart"},
     amazon_site : ApiPriceSites,
     flipkart_site : ApiPriceSites]

PriceInit ==
    /\ mode = "api_price"
    /\ pc = "request"
    /\ request \in ApiPriceRequests
    /\ response = <<>>
    /\ unique_products = <<>>
    /\ DedupIdle /\ AggregatorIdle /\ AdapterIdle /\ FusionIdle /\ OrchestratorIdle /\ AuthIdle

\* price_data after the two "if ... in sites" blocks
price_data_of(req) ==
    (IF "amazon" \in req.sites THEN <<scrape_amazon_india(req.amazon_site).value>> ELSE <<>>)
        \o (IF "flipkart" \in req.sites THEN <<scrape_flipkart(req.flipkart_site).value>> ELSE <<>>)

\* the handler of POST /api/price
api_price ==
    /\ mode = "api_price"
    /\ pc = "request"
    /\ pc' = "responded"
    /\ LET price_data == price_data_of(request)
       IN  response' =
             IF Strip(request.product_name) = EmptyStr
             THEN [status |-> 400, path |-> "rejected",
                   analysis |-> NoAnalysis, product_details |-> <<>>]
             ELSE IF (Truthy(request.storage) \/ Truthy(request.color))
                      /\ filter_by_specs(price_data, request.storage, request.color) = <<>>
             THEN [status |-> 200, path |-> "no_match",
                   analysis |-> NoAnalysis, product_details |-> price_data]
             ELSE [status |-> 200, path |-> "compared",
                   analysis |-> price_analysis(price_data), product_details |-> price_data]
    /\ UNCHANGED <<mode, request, unique_products>>
    /\ UNCHANGED <<dedupVars, aggregatorVars, adapterVars, authVars, fusionVars, orchestratorVars>>

PriceNext == api_price

SpecPrice == PriceInit /\ [][PriceNext]_vars

-----------------------------------------------------------------------------
(* EnhancedProductDetector.combine_detection_results and its helpers *)

\* self.product_categories, in the order of the dictionary
product_categories ==
    <<[category |-> "electronics", keywords |->
        <<<<"p","h","o","n","e">>, <<"s","m","a","r","t","p","h","o","n","e">>,
          <<"l","a","p","t","o","p">>, <<"c","o","m","p","u","t","e","r">>,
          <<"t","a","b","l","e","t">>, <<"c","a","m","e","r","a">>,
          <<"h","e","a","d","p","h","o","n","e","s">>, <<"s","p","e","a","k","e","r">>,
          <<"w","a","t","c","h">>, <<"s","m","a","r","t","w","a","t","c","h">>, <<"t","v">>,
          <<"m","o","n","i","t","o","r">>>>],
      [category |-> "clothing", keywords |->
        <<<<"s","h","i","r","t">>, <<"t","-","s","h","i","r","t">>, <<"d","r","e","s","s">>,
          <<"p","a","n","t","s">>, <<"j","e","a","n","s">>, <<"j","a","c","k","e","t">>,
          <<"c","o","a","t">>, <<"s","h","o","e","s">>, <<"s","n","e","a","k","e","r","s">>,
          <<"b","o","o","t","s">>, <<"h","a","t">>, <<"c","a","p">>>>],
      [category |-> "home", keywords |->
        <<<<"c","h","a","i","r">>, <<"t","a","b","l","e">>, <<"s","o","f","a">>,
          <<"b","e","d">>, <<"l","a","m","p">>, <<"c","u","s","h","i","o","n">>,
          <<"p","i","l","l","o","w">>, <<"c","u","r","t","a","i","n">>, <<"r","u","g">>,
          <<"v","a","s","e">>, <<"c","l","o","c","k">>>>],
      [category |-> "kitchen", keywords |->
        <<<<"b","o","t","t","l","e">>, <<"c","u","p">>, <<"m","u","g">>,
          <<"p","l","a","t","e">>, <<"b","o","w","l">>, <<"s","p","o","o","n">>,
          <<"f","o","r","k">>, <<"k","n","i","f","e">>, <<"p","o","t">>, <<"p","a","n">>>>],
      [category |-> "sports", keywords |->
        <<<<"b","a","l","l">>, <<"f","o","o","t","b","a","l","l">>,
          <<"b","a","s","k","e","t","b","a","l","l">>, <<"t","e","n","n","i","s">>,
          <<"r","a","c","k","e","t">>, <<"b","i","k","e">>, <<"b","i","c","y","c","l","e">>,
          <<"w","e","i","g","h","t","s">>, <<"d","u","m","b","b","e","l","l","s">>>>],
      [category |-> "books", keywords |->
        <<<<"b","o","o","k">>, <<"n","o","t","e","b","o","o","k">>,
          <<"j","o","u","r","n","a","l">>, <<"m","a","g","a","z","i","n","e">>,
          <<"n","e","w","s","p","a","p","e","r">>>>],
      [category |-> "toys", keywords |->
        <<<<"t","o","y">>, <<"d","o","l","l">>, <<"c","a","r">>, <<"t","r","u","c","k">>,
          <<"p","u","z","z","l","e">>, <<"g","a","m","e">>>>],
      [category |-> "beauty", keywords |->
        <<<<"p","e","r","f","u","m","e">>, <<"l","i","p","s","t","i","c","k">>,
          <<"m","a","k","e","u","p">>, <<"b","r","u","s","h">>, <<"m","i","r","r","o","r">>,
          <<"c","r","e","a","m">>, <<"l","o","t","i","o","n">>>>]>>

\* known_brands of extract_brand_info
known_brands ==
    <<<<"a","p","p","l","e">>, <<"s","a","m","s","u","n","g">>, <<"s","o","n","y">>,
      <<"l","g">>, <<"n","i","k","e">>, <<"a","d","i","d","a","s">>,
      <<"c","a","n","o","n">>, <<"n","i","k","o","n">>, <<"h","p">>, <<"d","e","l","l">>,
      <<"l","e","n","o","v","o">>, <<"a","s","u","s">>, <<"a","c","e","r">>,
      <<"m","i","c","r","o","s","o","f","t">>, <<"g","o","o","g","l","e">>,
      <<"a","m","a","z","o","n">>, <<"x","i","a","o","m","i">>, <<"o","p","p","o">>,
      <<"v","i","v","o">>, <<"o","n","e","p","l","u","s">>, <<"h","u","a","w","e","i">>,
      <<"r","e","a","l","m","e">>, <<"n","o","k","i","a">>>>

\* str.upper()
UpperChar(c) ==
    IF \E i \in DOMAIN LowerLetters : LowerLetters[i] = c
    THEN UpperLetters[CHOOSE i \in DOMAIN LowerLetters : LowerLetters[i] = c]
    ELSE c

Upper(s) == [i \in DOMAIN s |-> UpperChar(s[i])]

\* brand.title(), for the one-word lowercase entries of known_brands
Title(s) == IF s = <<>> THEN <<>> ELSE <<UpperChar(Head(s))>> \o Lower(Tail(s))

\* the regular expression class [A-Z0-9]
IsUpperOrDigit(c) == c \in Range(UpperLetters) \cup Digits

\* the maximal runs of \w characters of s, in order
RECURSIVE WordRunsFrom(_, _, _)
WordRunsFrom(s, i, cur) ==
    IF i > Len(s)
    THEN IF cur = <<>> THEN <<>> ELSE <<cur>>
    ELSE IF ~ IsWordChar(s[i])
         THEN (IF cur = <<>> THEN <<>> ELSE <<cur>>) \o WordRunsFrom(s, i + 1, <<>>)
         ELSE WordRunsFrom(s, i + 1, Append(cur, s[i]))

WordRuns(s) == WordRunsFrom(s, 1, <<>>)

\* the least element of a non-empty set of numbers
Least(S) == CHOOSE n \in S : \A m \in S : n <= m

\* categorize_product(product_name)
categorize_product(product_name) ==
    LET name == Lower(product_name)
        matching == {c \in DOMAIN product_categories :
                        \E k \in DOMAIN product_categories[c].keywords :
                            IsSubstring(product_categories[c].keywords[k], name)}
    IN  IF matching = {} THEN "general"
        ELSE product_categories[Least(matching)].category

\* re.match(r'^[A-Z0-9]{2,}$', word) and len(word) <= 10
LooksLikeIdentifier(word) ==
    /\ Len(word) >= 2
    /\ \A i \in DOMAIN word : IsUpperOrDigit(word[i])
    /\ Len(word) <= 10

\* the two loops of enhance_product_name over the words still to visit
RECURSIVE enhance_with_words(_, _)
enhance_with_words(enhanced_name, words) ==
    IF words = <<>> THEN enhanced_name
    ELSE LET word == Head(words)
         IN  enhance_with_words(
                 IF LooksLikeIdentifier(word)
                    /\ ~ IsSubstring(Lower(word), Lower(enhanced_name))
                 THEN enhanced_name \o <<" ">> \o word
                 ELSE enhanced_name,
                 Tail(words))

\* the words of all texts, text by text: for text in extracted_texts: text.split()
RECURSIVE WordsOfTexts(_)
WordsOfTexts(texts) ==
    IF texts = <<>> THEN <<>> ELSE Split(Head(texts)) \o WordsOfTexts(Tail(texts))

\* enhance_product_name(base_name, extracted_texts)
enhance_product_name(base_name, texts) ==
    Strip(enhance_with_words(base_name, WordsOfTexts(texts)))

\* the keywords extract_products_from_caption collects; it returns them as
\* list(set(products)), a list in the iteration order of a set of strings
caption_keywords(cap) ==
    LET caption_words == Range(Split(Lower(cap)))
    IN  {keyword \in UNION {Range(product_categories[c].keywords) :
                                c \in DOMAIN product_categories} :
            keyword \in caption_words}

\* the lists list(set(products)) may be: every order of the set
ListsOfSet(S) ==
    {seq \in [1..Cardinality(S) -> S] :
        \A i, j \in 1..Cardinality(S) : seq[i] = seq[j] => i = j}

\* for brand in known_brands: if brand in text_lower: ... break
BrandsIn(text_lower) == {b \in DOMAIN known_brands : IsSubstring(known_brands[b], text_lower)}

\* re.search(r'\b[A-Z0-9]{3,10}\b', text.upper()): between two word boundaries
\* lies a whole run of \w characters, so the match is the first run that is
\* made of [A-Z0-9] only and is 3 to 10 long; <<>> when there is none
ModelMatch(text_upper) ==
    LET runs == WordRuns(text_upper)
        fits == {r \in DOMAIN runs :
                    /\ Len(runs[r]) >= 3 /\ Len(runs[r]) <= 10
                    /\ \A i \in DOMAIN runs[r] : IsUpperOrDigit(runs[r][i])}
    IN  IF fits = {} THEN <<>> ELSE runs[Least(fits)]

\* the loop of extract_brand_info over the texts still to visit
RECURSIVE extract_brand_info_from(_, _)
extract_brand_info_from(texts, info) ==
    IF texts = <<>> THEN info
    ELSE LET text == Head(texts)
             found == BrandsIn(Lower(text))
             model_match == ModelMatch(Upper(text))
         IN  extract_brand_info_from(Tail(texts),
                 [brand |-> IF found # {} THEN Title(known_brands[Least(found)])
                            ELSE info.brand,
                  model |-> IF model_match # <<>> /\ info.model = EmptyStr
                            THEN model_match ELSE info.model])

\* extract_brand_info(extracted_texts)
extract_brand_info(texts) ==
    extract_brand_info_from(texts, [brand |-> EmptyStr, model |-> EmptyStr])

\* the thresholds of combine_detection_results, in hundredths: 0.3 and 0.7
ConfidenceFloor == 30
CaptionConfidence == 70

\* a variant of AboveFloor that lets a confidence of exactly 0.3 pass
AboveFloor_Inclusive(confidence) == confidence >= ConfidenceFloor

\* confidence > 0.3
AboveFloor(confidence) == confidence > ConfidenceFloor

Candidate(name, confidence, category, detection_method) ==
    [name |-> name, confidence |-> confidence, category |-> category,
     detection_method |-> detection_method]

\* a variant of caption_candidate whose confidence grows with the keyword
caption_candidate_ByLength(product, texts) ==
    Candidate(enhance_product_name(product, texts), 10 * Len(product),
              categorize_product(product), "Image Caption")

\* the dictionary appended for a product of the caption
caption_candidate(product, texts) ==
    Candidate(enhance_product_name(product, texts), CaptionConfidence,
              categorize_product(product), "Image Caption")

\* "Process YOLO detections": the loop over the detections still to visit, with
\* identified_products and seen_products
RECURSIVE yolo_pass(_, _, _, _)
yolo_pass(detections, texts, identified, seen_products) ==
    IF detections = <<>> THEN [identified |-> identified, seen |-> seen_products]
    ELSE LET detection == Head(detections)
             product_name == Lower(detection.name)
             confidence == detection.confidence
         IN  IF AboveFloor(confidence) /\ product_name \notin seen_products
             THEN yolo_pass(Tail(detections), texts,
                      Append(identified,
                             Candidate(enhance_product_name(product_name, texts), confidence,
                                       categorize_product(product_name), "YOLO")),
                      seen_products \cup {product_name})
             ELSE yolo_pass(Tail(detections), texts, identified, seen_products)

\* a variant of caption_pass that puts the candidates of the caption in front
RECURSIVE caption_pass_InFront(_, _, _, _)
caption_pass_InFront(caption_products, texts, identified, seen_products) ==
    IF caption_products = <<>> THEN [identified |-> identified, seen |-> seen_products]
    ELSE LET product == Head(caption_products)
         IN  IF Lower(product) \notin seen_products
             THEN caption_pass_InFront(Tail(caption_products), texts,
                      <<caption_candidate(product, texts)>> \o identified,
                      seen_products \cup {Lower(product)})
             ELSE caption_pass_InFront(Tail(caption_products), texts, identified,
                                       seen_products)

\* "Process caption for additional products": the loop over caption_products
RECURSIVE caption_pass(_, _, _, _)
caption_pass(caption_products, texts, identified, seen_products) ==
    IF caption_products = <<>> THEN [identified |-> identified, seen |-> seen_products]
    ELSE LET product == Head(caption_products)
         IN  IF Lower(product) \notin seen_products
             THEN caption_pass(Tail(caption_products), texts,
                      Append(identified, caption_candidate(product, texts)),
                      seen_products \cup {Lower(product)})
             ELSE caption_pass(Tail(caption_products), texts, identified, seen_products)

\* the two assignments to product['name'] of the brand loop
with_brand_info(product, info) ==
    LET branded == IF info.brand # EmptyStr
                   THEN info.brand \o <<" ">> \o product.name
                   ELSE product.name
        named == IF info.model # EmptyStr
                 THEN branded \o <<" ">> \o info.model
                 ELSE branded
    IN  [product EXCEPT !.name = named]

\* combine_detection_results(yolo_detections, caption, extracted_texts), when
\* extract_products_from_caption returns its keywords as the list caption_products
combine_detection_results(detections, cap, texts, caption_products) ==
    LET after_yolo == yolo_pass(detections, texts, <<>>, {})
        after_caption ==
            IF cap # EmptyStr
            THEN caption_pass(caption_products, texts, after_yolo.identified, after_yolo.seen)
            ELSE after_yolo
        info == extract_brand_info(texts)
    IN  [i \in DOMAIN after_caption.identified |->
            with_brand_info(after_caption.identified[i], info)]

MaxDetections == 2

L_cup == <<"c","u","p">>
L_Cup == <<"C","u","p">>
L_cell_phone == <<"c","e","l","l"," ","p","h","o","n","e">>

\* the last label is that of a detection without a name: detection.get('name', '')
Labels == {L_cup, L_Cup, L_cell_phone, EmptyStr}

\* confidences around the floor, in hundredths
Confidences == {30, 31, 90}

Detections == [name : Labels, confidence : Confidences]

C_cup_table == <<"a"," ","c","u","p"," ","o","n"," ","a"," ","t","a","b","l","e">>
C_Phone == <<"A"," ","P","h","o","n","e">>
C_cup == <<"c","u","p">>

Captions == {EmptyStr, C_cup_table, C_Phone, C_cup}

X_sony == <<"S","O","N","Y"," ","X","1">>
X_nokia == <<"n","o","k","i","a"," ","3","3","1","0">>

X_tv == <<"T","V">>

TextLists == {<<>>, <<X_sony>>, <<X_nokia, X_sony>>, <<X_tv>>}

FusionInit ==
    /\ mode = "combine_detection_results"
    /\ pc = "call"
    /\ yolo_detections \in SeqsUpTo(Detections, MaxDetections)
    /\ caption \in Captions
    /\ extracted_texts \in TextLists
    /\ identified_products = <<>>
    /\ brand_info = <<>>
    /\ unique_products = <<>>
    /\ DedupIdle /\ AggregatorIdle /\ AdapterIdle /\ PriceIdle /\ OrchestratorIdle /\ AuthIdle

\* one call of combine_detection_results
CombineDetectionResultsCall ==
    /\ mode = "combine_detection_results"
    /\ pc = "call"
    /\ \E caption_products \in ListsOfSet(caption_keywords(caption)) :
          identified_products' =
              combine_detection_results(yolo_detections, caption, extracted_texts,
                                        caption_products)
    /\ brand_info' = extract_brand_info(extracted_texts)
    /\ pc' = "done"
    /\ UNCHANGED <<mode, yolo_detections, caption, extracted_texts, unique_products>>
    /\ UNCHANGED <<dedupVars, aggregatorVars, adapterVars, authVars, priceVars, orchestratorVars>>

FusionNext == CombineDetectionResultsCall

SpecFusion == FusionInit /\ [][FusionNext]_vars

-----------------------------------------------------------------------------
(* One ProductSearchEngine serving one search_all_platforms call after another *)

\* a variant of all_products = [] that goes on with the list of the call before
new_list_Kept(previous) == previous

\* all_products = []: a new list, whatever the name was bound to before
new_list(previous) == <<>>

\* search_all_platforms(product_name, max_results) as one step, when every site
\* comes back: what the three adapters return, all_products, the returned list;
\* previous is the list the call before left behind
search_all_platforms(sites, max_results, previous) ==
    LET amazon == search_amazon_products(sites["amazon"], max_results)
        flipkart == search_flipkart_products(sites["flipkart"], max_results)
        google == search_google_shopping(sites["google"], max_results)
        all == Extend(Extend(Extend(new_list(previous), amazon.value), flipkart.value),
                      google.value)
    IN  [raised |-> amazon.raised \/ flipkart.raised \/ google.raised,
         all_products |-> all,
         unique_products |-> remove_duplicates(all)]

\* an entry of the record of calls
Invocation(call, arg, sites, returned) ==
    [call |-> call, arg |-> arg, sites |-> sites, returned |-> returned]

MaxCalls == 3

Q_cup == <<"c","u","p">>
Q_phone == <<"p","h","o","n","e">>
Q_blank == <<" ">>

Queries == {Q_cup, Q_phone}

\* what the three sites answer to one call
AllRefuse == [a \in Adapters |-> Refuses]
OnlyAmazon ==
    [a \in Adapters |->
        IF a = "amazon"
        THEN Page(<<RawResult(T_abc, P100, U_img, FALSE), RawResult(T_dbx, P100, U_img, FALSE)>>)
        ELSE Refuses]
OnlyFlipkart ==
    [a \in Adapters |->
        IF a = "flipkart" THEN Page(<<RawResult(T_abcde, P150, U_img, FALSE)>>)
        ELSE IF a = "google" THEN NoDriver ELSE Refuses]
AllAnswer ==
    [a \in Adapters |->
        IF a = "amazon" THEN Page(<<RawResult(T_abc, P100, U_img, FALSE)>>)
        ELSE IF a = "flipkart" THEN Page(<<RawResult(T_abcd, P150, U_img, FALSE)>>)
        ELSE Page(<<RawResult(T_dbx, P100, U_img, FALSE)>>)]

SiteAnswers == {AllRefuse, OnlyAmazon, OnlyFlipkart, AllAnswer}

EngineInit ==
    /\ mode = "engine"
    /\ pc = "ready"
    /\ unique_products = <<>>
    /\ DedupIdle /\ AggregatorIdle /\ AdapterIdle /\ PriceIdle /\ FusionIdle
    /\ OrchestratorIdle /\ AuthIdle

\* one more call of search_all_platforms on the same engine
SearchAllPlatformsCall ==
    /\ mode = "engine"
    /\ Len(invoked) < MaxCalls
    /\ \E product_name \in Queries, sites \in SiteAnswers :
          LET out == search_all_platforms(sites, max_results_per_platform, all_products)
          IN  /\ remote' = sites
              /\ all_products' = out.all_products
              /\ unique_products' = out.unique_products
              /\ invoked' = Append(invoked,
                     Invocation("search_all_platforms", product_name, sites,
                                out.unique_products))
    /\ UNCHANGED <<mode, pc, started, finished, raised, amazon_products,
                   flipkart_products, google_products, enhanced_results, results>>
    /\ UNCHANGED <<dedupVars, adapterVars, authVars, priceVars, fusionVars>>

EngineNext == SearchAllPlatformsCall

SpecEngine == EngineInit /\ [][EngineNext]_vars

-----------------------------------------------------------------------------
(* The routes /api/enhanced-detect, /api/upload-search, /api/search-product  *)
(* of app.py with analyze_and_identify_products and search_uploaded_image    *)

\* What a request carries as its image: no 'image' part at all, a part with no
\* bytes, or the bytes of a picture.  Image.open throws on the second.
Images == {"absent", "empty", "picture"}
Readable(image) == image = "picture"

\* What a capability provider's model does when it is run on a readable
\* image: loaded or not, throwing or returning value
Provider(loaded, throws, value) == [loaded |-> loaded, raised |-> throws, value |-> value]

\* a variant of the providers' handler that lets the exception through
except_return_signal_Propagates(outcome, empty) == outcome

\* except Exception as e: ... return [] (or "")
except_return_signal(outcome, empty) ==
    IF outcome.raised THEN Returned(empty) ELSE outcome

\* detect_with_yolo(image_bytes)
detect_with_yolo_try(image, model) ==
    IF ~ Readable(image) \/ model.raised THEN Raised ELSE Returned(model.value)

detect_with_yolo(image, model) ==
    except_return_signal(detect_with_yolo_try(image, model), <<>>)

\* generate_image_caption(image_bytes)
generate_image_caption_try(image, model) ==
    IF ~ model.loaded THEN Returned(EmptyStr)
    ELSE IF ~ Readable(image) \/ model.raised THEN Raised
    ELSE Returned(model.value)

generate_image_caption(image, model) ==
    except_return_signal(generate_image_caption_try(image, model), EmptyStr)

\* the confidence an OCR result must exceed, in hundredths: 0.5
OcrFloor == 50

\* [result[1] for result in results if result[2] > 0.5]
RECURSIVE ConfidentTexts(_)
ConfidentTexts(readings) ==
    IF readings = <<>> THEN <<>>
    ELSE (IF Head(readings).confidence > OcrFloor THEN <<Head(readings).text>> ELSE <<>>)
            \o ConfidentTexts(Tail(readings))

\* extract_text_from_image(image_bytes)
extract_text_from_image_try(image, reader) ==
    IF ~ reader.loaded THEN Returned(<<>>)
    ELSE IF ~ Readable(image) \/ reader.raised THEN Raised
    ELSE Returned(ConfidentTexts(reader.value))

extract_text_from_image(image, reader) ==
    except_return_signal(extract_text_from_image_try(image, reader), <<>>)

NoProductsDetected == "No products detected in the image."

RECURSIVE SumTotalFound(_)
SumTotalFound(rs) == IF rs = <<>> THEN 0 ELSE Head(rs).total_found + SumTotalFound(Tail(rs))

\* a variant of generate_analysis_summary without the case of no results
generate_analysis_summary_Counts(rs) ==
    <<"Detected ", Len(rs), " product(s): ", [i \in DOMAIN rs |-> rs[i].detected_name],
      ". Found ", SumTotalFound(rs),
      " online shopping results across multiple platforms.">>

\* generate_analysis_summary(enhanced_results): the pieces of the text
generate_analysis_summary(rs) ==
    IF rs = <<>> THEN <<NoProductsDetected>>
    ELSE <<"Detected ", Len(rs), " product(s): ", [i \in DOMAIN rs |-> rs[i].detected_name],
           ". Found ", SumTotalFound(rs),
           " online shopping results across multiple platforms.">>

\* max_results_per_platform=2 in analyze_and_identify_products
AnalyzeMaxResults == 2

\* the dictionary appended to enhanced_results
EnhancedResult(product, search_results) ==
    [detected_name |-> product.name,
     confidence |-> product.confidence,
     category |-> product.category,
     detection_method |-> product.detection_method,
     search_results |-> search_results,
     total_found |-> Len(search_results)]

\* what analyze_and_identify_products returns from its try
AnalysisResult(detections, cap, texts, rs) ==
    [yolo_detections |-> detections,
     image_caption |-> cap,
     extracted_text |-> texts,
     identified_products |-> rs,
     analysis_summary |-> generate_analysis_summary(rs)]

\* what it returns from its handler
AnalysisError ==
    [error |-> "str(e)",
     yolo_detections |-> <<>>,
     image_caption |-> EmptyStr,
     extracted_text |-> <<>>,
     identified_products |-> <<>>]

\* a variant of has_query that ignores a query of blanks
has_query_Stripped(search_query) == search_query # None /\ Strip(search_query) # EmptyStr

\* if search_query: in search_uploaded_image
has_query(search_query) == Truthy(search_query)

\* what search_uploaded_image returns for a query
QueryResult(search_query, search_results) ==
    [search_query |-> search_query,
     search_results |-> search_results,
     total_found |-> Len(search_results),
     analysis_summary |-> <<"Found ", Len(search_results), " results for '", search_query, "'">>]

\* the 'results' of api_search_product
SearchProductResult(search_query, search_results) ==
    [search_query |-> search_query,
     search_results |-> search_results,
     total_found |-> Len(search_results)]

\* jsonify(...) and the status that goes with it
Success(value) == [status |-> 200, success |-> TRUE, body |-> value]
Failure(status, error) == [status |-> status, success |-> FALSE, body |-> <<error>>]

\* the calls one search_all_platforms call makes, itself first
SearchTrace(product_name, sites, out) ==
    <<Invocation("search_all_platforms", product_name, sites, out.unique_products),
      Invocation("search_amazon_products", product_name, sites, <<>>),
      Invocation("search_flipkart_products", product_name, sites, <<>>),
      Invocation("search_google_shopping", product_name, sites, <<>>),
      Invocation("remove_duplicates", out.all_products, sites, out.unique_products)>>

NoSites == <<>>

\* what the detector, the captioner and the text reader do on a readable image
YoloModels ==
    {Provider(TRUE, TRUE, <<>>),
     Provider(TRUE, FALSE, <<>>),
     Provider(TRUE, FALSE, <<[name |-> L_cup, confidence |-> 30]>>),
     Provider(TRUE, FALSE, <<[name |-> L_cup, confidence |-> 90],
                             [name |-> L_cell_phone, confidence |-> 31]>>)}

BlipModels ==
    {Provider(FALSE, FALSE, EmptyStr),
     Provider(TRUE, TRUE, EmptyStr),
     Provider(TRUE, FALSE, EmptyStr),
     Provider(TRUE, FALSE, C_cup_table)}

OcrReaders ==
    {Provider(FALSE, FALSE, <<>>),
     Provider(TRUE, TRUE, <<>>),
     Provider(TRUE, FALSE, <<>>),
     Provider(TRUE, FALSE, <<[text |-> X_sony, confidence |-> 90],
                             [text |-> X_nokia, confidence |-> 50]>>)}

\* request.form.get('search_query', None) and data.get('query', '')
FormQueries == {None, EmptyStr, Q_blank, Q_phone}
JsonQueries == {EmptyStr, Q_blank, Q_phone}

Requests ==
    [endpoint : {"enhanced_detect"}, image : Images, search_query : {None},
     yolo : YoloModels, blip : BlipModels, ocr : OcrReaders]
    \cup
    [endpoint : {"upload_search"}, image : Images, search_query : FormQueries,
     yolo : YoloModels, blip : BlipModels, ocr : OcrReaders]
    \cup
    [endpoint : {"search_product"}, image : {"absent"}, search_query : JsonQueries,
     yolo : {Provider(TRUE, FALSE, <<>>)}, blip : {Provider(TRUE, FALSE, EmptyStr)},
     ocr : {Provider(TRUE, FALSE, <<>>)}]

\* what the sites answer to a search made for a request
RequestSiteAnswers == {AllRefuse, OnlyAmazon, AllAnswer}

\* what no step of a request touches
requestFrame == <<mode, request, products, started, finished, raised, amazon_products,
                  flipkart_products, google_products, adapterVars, authVars>>
signalVars == <<yolo_detections, caption, extracted_texts>>
searchVars == <<remote, all_products, unique_products>>

RequestInit ==
    /\ mode = "request"
    /\ pc = "received"
    /\ request \in Requests
    /\ response = <<>>
    /\ unique_products = <<>>
    /\ DedupIdle /\ AggregatorIdle /\ AdapterIdle /\ FusionIdle /\ OrchestratorIdle /\ AuthIdle

\* api_enhanced_detect up to the call of analyze_and_identify_products;
\* request.files['image'] throws when the part is absent
api_enhanced_detect ==
    /\ mode = "request" /\ pc = "received"
    /\ request.endpoint = "enhanced_detect"
    /\ IF request.image = "absent"
       THEN response' = Failure(500, "str(e)") /\ pc' = "responded"
       ELSE pc' = "detect_with_yolo" /\ UNCHANGED response
    /\ UNCHANGED <<requestFrame, signalVars, searchVars, identified_products, brand_info,
                   orchestratorVars>>

\* api_upload_search up to the branch of search_uploaded_image
api_upload_search ==
    /\ mode = "request" /\ pc = "received"
    /\ request.endpoint = "upload_search"
    /\ IF request.image = "absent"
       THEN response' = Failure(500, "str(e)") /\ pc' = "responded"
       ELSE /\ pc' = IF has_query(request.search_query)
                     THEN "search_query" ELSE "detect_with_yolo"
            /\ UNCHANGED response
    /\ UNCHANGED <<requestFrame, signalVars, searchVars, identified_products, brand_info,
                   orchestratorVars>>

\* api_search_product up to the call of search_all_platforms
api_search_product ==
    /\ mode = "request" /\ pc = "received"
    /\ request.endpoint = "search_product"
    /\ IF Strip(request.search_query) = EmptyStr
       THEN response' = Failure(400, "Search query is required") /\ pc' = "responded"
       ELSE pc' = "search_platforms" /\ UNCHANGED response
    /\ UNCHANGED <<requestFrame, signalVars, searchVars, identified_products, brand_info,
                   orchestratorVars>>

\* 1. yolo_detections = self.detect_with_yolo(image_bytes)
AnalyzeDetectWithYolo ==
    /\ mode = "request" /\ pc = "detect_with_yolo"
    /\ LET out == detect_with_yolo(request.image, request.yolo)
       IN  /\ invoked' = Append(invoked,
                  Invocation("detect_with_yolo", <<"image_bytes">>, NoSites, out.value))
           /\ IF out.raised
              THEN results' = AnalysisError /\ pc' = "respond" /\ UNCHANGED yolo_detections
              ELSE yolo_detections' = out.value /\ pc' = "generate_image_caption"
                   /\ UNCHANGED results
    /\ UNCHANGED <<requestFrame, response, caption, extracted_texts, searchVars,
                   identified_products, brand_info, enhanced_results>>

\* 2. caption = self.generate_image_caption(image_bytes)
AnalyzeGenerateImageCaption ==
    /\ mode = "request" /\ pc = "generate_image_caption"
    /\ LET out == generate_image_caption(request.image, request.blip)
       IN  /\ invoked' = Append(invoked,
                  Invocation("generate_image_caption", <<"image_bytes">>, NoSites, out.value))
           /\ IF out.raised
              THEN results' = AnalysisError /\ pc' = "respond" /\ UNCHANGED caption
              ELSE caption' = out.value /\ pc' = "extract_text_from_image"
                   /\ UNCHANGED results
    /\ UNCHANGED <<requestFrame, response, yolo_detections, extracted_texts, searchVars,
                   identified_products, brand_info, enhanced_results>>

\* 3. extracted_texts = self.extract_text_from_image(image_bytes)
AnalyzeExtractTextFromImage ==
    /\ mode = "request" /\ pc = "extract_text_from_image"
    /\ LET out == extract_text_from_image(request.image, request.ocr)
       IN  /\ invoked' = Append(invoked,
                  Invocation("extract_text_from_image", <<"image_bytes">>, NoSites, out.value))
           /\ IF out.raised
              THEN results' = AnalysisError /\ pc' = "respond" /\ UNCHANGED extracted_texts
              ELSE extracted_texts' = out.value /\ pc' = "combine_detection_results"
                   /\ UNCHANGED results
    /\ UNCHANGED <<requestFrame, response, yolo_detections, caption, searchVars,
                   identified_products, brand_info, enhanced_results>>

\* 4. identified_products = self.combine_detection_results(...)
AnalyzeCombineDetectionResults ==
    /\ mode = "request" /\ pc = "combine_detection_results"
    /\ \E caption_products \in ListsOfSet(caption_keywords(caption)) :
          identified_products' =
              combine_detection_results(yolo_detections, caption, extracted_texts,
                                        caption_products)
    /\ brand_info' = extract_brand_info(extracted_texts)
    /\ invoked' = Append(invoked,
           Invocation("combine_detection_results", <<"signals">>, NoSites,
                      identified_products'))
    /\ pc' = "search_products"
    /\ UNCHANGED <<requestFrame, response, signalVars, searchVars, enhanced_results, results>>

\* 5. one round of the loop: search_all_platforms(product['name'], 2) and the
\* dictionary appended to enhanced_results
AnalyzeSearchProduct ==
    /\ mode = "request" /\ pc = "search_products"
    /\ Len(enhanced_results) < Len(identified_products)
    /\ \E sites \in RequestSiteAnswers :
          LET product == identified_products[Len(enhanced_results) + 1]
              out == search_all_platforms(sites, AnalyzeMaxResults, all_products)
          IN  /\ remote' = sites
              /\ all_products' = out.all_products
              /\ unique_products' = out.unique_products
              /\ invoked' = invoked \o SearchTrace(product.name, sites, out)
              /\ IF out.raised
                 THEN results' = AnalysisError /\ pc' = "respond"
                      /\ UNCHANGED enhanced_results
                 ELSE enhanced_results' =
                          Append(enhanced_results, EnhancedResult(product, out.unique_products))
                      /\ UNCHANGED <<results, pc>>
    /\ UNCHANGED <<requestFrame, response, signalVars, identified_products, brand_info>>

\* the loop is over: generate_analysis_summary and the returned dictionary
AnalyzeReturns ==
    /\ mode = "request" /\ pc = "search_products"
    /\ Len(enhanced_results) = Len(identified_products)
    /\ results' = AnalysisResult(yolo_detections, caption, extracted_texts, enhanced_results)
    /\ invoked' = Append(invoked,
           Invocation("generate_analysis_summary", <<"enhanced_results">>, NoSites,
                      generate_analysis_summary(enhanced_results)))
    /\ pc' = "respond"
    /\ UNCHANGED <<requestFrame, response, signalVars, searchVars, identified_products,
                   brand_info, enhanced_results>>

\* search_uploaded_image with a query: search_all_platforms(search_query, 3)
SearchUploadedImageWithQuery ==
    /\ mode = "request" /\ pc = "search_query"
    /\ \E sites \in RequestSiteAnswers :
          LET out == search_all_platforms(sites, max_results_per_platform, all_products)
          IN  /\ remote' = sites
              /\ all_products' = out.all_products
              /\ unique_products' = out.unique_products
              /\ invoked' = invoked \o SearchTrace(request.search_query, sites, out)
              /\ results' = QueryResult(request.search_query, out.unique_products)
    /\ pc' = "respond"
    /\ UNCHANGED <<requestFrame, response, signalVars, identified_products, brand_info,
                   enhanced_results>>

\* api_search_product: search_all_platforms(search_query, 3) and its 'results'
SearchProductPlatforms ==
    /\ mode = "request" /\ pc = "search_platforms"
    /\ \E sites \in RequestSiteAnswers :
          LET out == search_all_platforms(sites, max_results_per_platform, all_products)
          IN  /\ remote' = sites
              /\ all_products' = out.all_products
              /\ unique_products' = out.unique_products
              /\ invoked' = invoked \o SearchTrace(request.search_query, sites, out)
              /\ results' = SearchProductResult(request.search_query, out.unique_products)
    /\ pc' = "respond"
    /\ UNCHANGED <<requestFrame, response, signalVars, identified_products, brand_info,
                   enhanced_results>>

\* return jsonify({'success': True, 'results': results})
Respond ==
    /\ mode = "request" /\ pc = "respond"
    /\ response' = Success(results)
    /\ pc' = "responded"
    /\ UNCHANGED <<requestFrame, signalVars, searchVars, identified_products, brand_info,
                   orchestratorVars>>

RequestNext ==
    \/ api_enhanced_detect
    \/ api_upload_search
    \/ api_search_product
    \/ AnalyzeDetectWithYolo
    \/ AnalyzeGenerateImageCaption
    \/ AnalyzeExtractTextFromImage
    \/ AnalyzeCombineDetectionResults
    \/ AnalyzeSearchProduct
    \/ AnalyzeReturns
    \/ SearchUploadedImageWithQuery
    \/ SearchProductPlatforms
    \/ Respond

SpecRequest == RequestInit /\ [][RequestNext]_vars

-----------------------------------------------------------------------------
(* The account routes of app.py: setup_admin, login, verify_token, update_user *)

E_a == <<"a","@","x",".","i","o">>
E_b == <<"b","@","x",".","i","o">>
E_A_spaced == <<" ","A","@","x",".","i","o">>
E_nowhere == <<"a","@","x">>
PW_secret == <<"s","e","c","r","e","t">>
PW_hunter == <<"h","u","n","t","e","r","2">>
PW_abc == <<"a","b","c">>
N_ann == <<"A","n","n">>
N_bob == <<"B","o","b">>

\* bcrypt.hashpw(password, salt): the stored value is not the password, and
\* checkpw accepts exactly the password it was made from
hash_password(password) == <<"$">> \o password

check_password(password, hashed) == hashed = hash_password(password)

\* the classes [a-zA-Z], [a-zA-Z0-9._%+-] and [a-zA-Z0-9.-] of email_pattern
IsLetter(c) == c \in Range(UpperLetters) \cup Range(LowerLetters)
InLocalPart(c) == IsLetter(c) \/ c \in Digits \cup {".", "_", "%", "+", "-"}
InDomainPart(c) == IsLetter(c) \/ c \in Digits \cup {".", "-"}

\* re.match(r'^[a-zA-Z0-9._%+-]+@[a-zA-Z0-9.-]+\.[a-zA-Z]{2,}$', email)
MatchesEmailPattern(email) ==
    \E a, d \in DOMAIN email :
        /\ email[a] = "@" /\ email[d] = "."
        /\ a > 1 /\ d > a + 1 /\ Len(email) - d >= 2
        /\ \A i \in 1..(a - 1) : InLocalPart(email[i])
        /\ \A i \in (a + 1)..(d - 1) : InDomainPart(email[i])
        /\ \A i \in (d + 1)..Len(email) : IsLetter(email[i])

\* a document of the users collection; its _id is its position
UserDocument(email, hashed, fullName, role, status) ==
    [email |-> email, password |-> hashed, fullName |-> fullName,
     role |-> role, status |-> status]

\* users_collection.find_one({'role': 'Admin'}) and find_one({'email': email}):
\* the positions of the documents that match
WithRole(users, role) == {i \in DOMAIN users : users[i].role = role}
WithEmail(users, email) == {i \in DOMAIN users : users[i].email = email}

\* the answers of the routes: HTTP status, the error or message, the token
NoToken == <<>>
Answer(status, text) == [status |-> status, text |-> text, token |-> NoToken]

\* a request without a JSON body: request.json is None
NoBody == [json |-> FALSE]

\* lines 1017-1036 of setup_admin: the checks between the two reads of the
\* collection; <<>> when all pass
setup_admin_validate(body) ==
    IF ~ body.json THEN <<Answer(500, "str(e)")>>
    ELSE IF body.email = EmptyStr THEN <<Answer(400, "email is required")>>
    ELSE IF body.password = EmptyStr THEN <<Answer(400, "password is required")>>
    ELSE IF body.fullName = EmptyStr THEN <<Answer(400, "fullName is required")>>
    ELSE IF ~ MatchesEmailPattern(Strip(Lower(body.email)))
    THEN <<Answer(400, "Invalid email format")>>
    ELSE IF Len(body.password) < 6
    THEN <<Answer(400, "Password must be at least 6 characters long")>>
    ELSE <<>>

\* the requests to POST /api/setup-admin that may be in flight together
MaxSetupRequests == 2

SetupBodies ==
    {NoBody}
        \cup [json : {TRUE},
              email : {EmptyStr, E_a, E_A_spaced, E_b, E_nowhere},
              password : {PW_secret, PW_abc},
              fullName : {N_ann}]

SetupInit ==
    /\ mode = "setup_admin"
    /\ pc = "serving"
    /\ users_collection = <<>>
    /\ handlers = <<>>
    /\ tokens = {}
    /\ unique_products = <<>>
    /\ DedupIdle /\ AggregatorIdle /\ AdapterIdle /\ PriceIdle /\ FusionIdle
    /\ OrchestratorIdle

SetupFrame ==
    UNCHANGED <<mode, pc, unique_products, tokens, dedupVars, aggregatorVars, adapterVars,
                priceVars, fusionVars, orchestratorVars>>

\* a request arrives and a thread of the server starts setup_admin on it
SetupAdminArrives ==
    /\ mode = "setup_admin"
    /\ Len(handlers) < MaxSetupRequests
    /\ \E body \in SetupBodies :
          handlers' = Append(handlers, [route |-> "setup_admin", at |-> "find_admin",
                                        body |-> body, answer |-> <<>>])
    /\ UNCHANGED users_collection
    /\ SetupFrame

\* existing_admin = users_collection.find_one({'role': 'Admin'}), and the
\* checks of the body that follow it
SetupAdminFindAdmin(h) ==
    /\ mode = "setup_admin"
    /\ handlers[h].at = "find_admin"
    /\ LET refused ==
               IF WithRole(users_collection, "Admin") # {}
               THEN <<Answer(400, "Admin user already exists")>>
               ELSE setup_admin_validate(handlers[h].body)
       IN  handlers' =
               IF refused # <<>>
               THEN [handlers EXCEPT ![h].at = "done", ![h].answer = refused[1]]
               ELSE [handlers EXCEPT ![h].at = "find_email"]
    /\ UNCHANGED users_collection
    /\ SetupFrame

\* existing_user = users_collection.find_one({'email': email})
SetupAdminFindEmail(h) ==
    /\ mode = "setup_admin"
    /\ handlers[h].at = "find_email"
    /\ handlers' =
           IF WithEmail(users_collection, Strip(Lower(handlers[h].body.email))) # {}
           THEN [handlers EXCEPT ![h].at = "done",
                                 ![h].answer = Answer(400, "Email already registered")]
           ELSE [handlers EXCEPT ![h].at = "insert"]
    /\ UNCHANGED users_collection
    /\ SetupFrame

\* users_collection.insert_one(user_data) and the answer
SetupAdminInsert(h) ==
    /\ mode = "setup_admin"
    /\ handlers[h].at = "insert"
    /\ users_collection' =
           Append(users_collection,
                  UserDocument(Strip(Lower(handlers[h].body.email)),
                               hash_password(handlers[h].body.password),
                               Strip(handlers[h].body.fullName), "Admin", "Active"))
    /\ handlers' = [handlers EXCEPT ![h].at = "done",
                                    ![h].answer = Answer(200, "Admin user created successfully")]
    /\ SetupFrame

SetupNext ==
    \/ SetupAdminArrives
    \/ \E h \in DOMAIN handlers : SetupAdminFindAdmin(h)
    \/ \E h \in DOMAIN handlers : SetupAdminFindEmail(h)
    \/ \E h \in DOMAIN handlers : SetupAdminInsert(h)

SpecSetup == SetupInit /\ [][SetupNext]_vars

-----------------------------------------------------------------------------
(* login, verify_token and update_user on a collection with two users *)

\* the Authorization header of a request: absent, not a token of this server,
\* or a token generate_token made for user_id, presented before or after its
\* 30 days
NoHeader == [kind |-> "none"]
Garbage == [kind |-> "garbage"]
Jwt(user_id, expired) == [kind |-> "jwt", user_id |-> user_id, expired |-> expired]

\* generate_token(user_id), as the token field of an answer
generate_token(user_id) == <<user_id>>

\* the decorator token_required: the answer that refuses the request, <<>>
\* when f(current_user) is called
token_required(presented, users) ==
    IF presented.kind = "none" THEN <<Answer(401, "Token is missing")>>
    ELSE IF presented.kind = "garbage" THEN <<Answer(401, "Invalid token")>>
    ELSE IF presented.expired THEN <<Answer(401, "Token has expired")>>
    ELSE IF presented.user_id \notin DOMAIN users THEN <<Answer(401, "Invalid token")>>
    ELSE <<>>

\* the decorator admin_required
admin_required(presented, users) ==
    IF token_required(presented, users) # <<>> THEN token_required(presented, users)
    ELSE IF users[presented.user_id].role # "Admin"
    THEN <<Answer(403, "Admin access required")>>
    ELSE <<>>

\* the answer of POST /api/auth/login
login_answer(body, users) ==
    IF ~ body.json THEN Answer(500, "str(e)")
    ELSE IF body.email = EmptyStr \/ body.password = EmptyStr
    THEN Answer(400, "Email and password are required")
    ELSE LET found == WithEmail(users, Strip(Lower(body.email)))
         IN  IF found = {} THEN Answer(401, "Invalid credentials")
             ELSE LET user == Least(found)
                  IN  IF users[user].status = "Banned"
                      THEN Answer(403, "Account is banned")
                      ELSE IF ~ check_password(body.password, users[user].password)
                      THEN Answer(401, "Invalid credentials")
                      ELSE [status |-> 200, text |-> "Login successful",
                            token |-> generate_token(user)]

valid_roles == {"Admin", "Moderator", "Regular User"}
valid_statuses == {"Active", "Banned"}

\* the checks of update_user, in order: the answer that refuses the request,
\* <<>> when the update is made
update_user_refusal(users, user_id, body) ==
    IF ~ body.json THEN <<Answer(500, "str(e)")>>
    ELSE IF user_id \notin DOMAIN users THEN <<Answer(404, "User not found")>>
    ELSE IF "email" \in DOMAIN body.data
            /\ WithEmail(users, Strip(Lower(body.data.email))) \ {user_id} # {}
    THEN <<Answer(400, "Email already taken")>>
    ELSE IF "role" \in DOMAIN body.data /\ body.data.role \notin valid_roles
    THEN <<Answer(400, "Invalid role")>>
    ELSE IF "status" \in DOMAIN body.data /\ body.data.status \notin valid_statuses
    THEN <<Answer(400, "Invalid status")>>
    ELSE IF DOMAIN body.data \cap {"fullName", "email", "role", "status"} = {}
    THEN <<Answer(400, "No valid fields to update")>>
    ELSE <<>>

\* update_one({'_id': ...}, {'$set': update_data}) on the document
updated_document(document, update) ==
    [f \in DOMAIN document |->
        IF f \in DOMAIN update \cap {"fullName", "email", "role", "status"}
        THEN (IF f = "fullName" THEN Strip(update[f])
              ELSE IF f = "email" THEN Strip(Lower(update[f]))
              ELSE update[f])
        ELSE document[f]]

JsonBody(fields) == [json |-> TRUE, data |-> fields]

LoginBodies ==
    {NoBody}
        \cup [json : {TRUE},
              email : {EmptyStr, E_a, E_A_spaced, E_b, E_nowhere},
              password : {PW_secret, PW_hunter}]

UpdateBodies ==
    {NoBody, JsonBody(<<>>),
     JsonBody([status |-> "Banned"]), JsonBody([status |-> "Active"]),
     JsonBody([status |-> "Frozen"]),
     JsonBody([role |-> "Admin"]), JsonBody([role |-> "Owner"]),
     JsonBody([email |-> E_A_spaced]), JsonBody([fullName |-> N_ann])}

\* the user_id of the URL: the two users and an id of no document
UserIds == {1, 2, 3}

\* the headers a client can send: none, garbage, a token it holds
Presented == {NoHeader, Garbage} \cup {Jwt(u, e) : u \in tokens, e \in BOOLEAN}

AccountsInit ==
    /\ mode = "accounts"
    /\ pc = "serving"
    /\ users_collection =
           <<UserDocument(E_a, hash_password(PW_secret), N_ann, "Admin", "Active"),
             UserDocument(E_b, hash_password(PW_hunter), N_bob, "Regular User", "Active")>>
    /\ handlers = <<>>
    /\ tokens = {}
    /\ unique_products = <<>>
    /\ DedupIdle /\ AggregatorIdle /\ AdapterIdle /\ PriceIdle /\ FusionIdle
    /\ OrchestratorIdle

AccountsFrame ==
    UNCHANGED <<mode, pc, unique_products, dedupVars, aggregatorVars, adapterVars,
                priceVars, fusionVars, orchestratorVars>>

\* the request the server has just answered
Handled(route, presented, user_id, body, answer) ==
    <<[route |-> route, at |-> "done", token |-> presented, user_id |-> user_id,
       body |-> body, answer |-> answer]>>

\* POST /api/auth/login
login ==
    /\ mode = "accounts"
    /\ \E body \in LoginBodies :
          LET answer == login_answer(body, users_collection)
          IN  /\ handlers' = Handled("login", NoHeader, 0, body, answer)
              /\ tokens' = IF answer.token # NoToken THEN tokens \cup {answer.token[1]}
                           ELSE tokens
    /\ UNCHANGED users_collection
    /\ AccountsFrame

\* GET /api/auth/verify, behind token_required
verify_token ==
    /\ mode = "accounts"
    /\ \E presented \in Presented :
          LET refused == token_required(presented, users_collection)
          IN  handlers' = Handled("verify_token", presented, 0, NoBody,
                                  IF refused # <<>> THEN refused[1]
                                  ELSE Answer(200, "user"))
    /\ UNCHANGED <<users_collection, tokens>>
    /\ AccountsFrame

\* PUT /api/admin/users/<user_id>, behind admin_required
update_user ==
    /\ mode = "accounts"
    /\ \E presented \in Presented, user_id \in UserIds, body \in UpdateBodies :
          LET barred == admin_required(presented, users_collection)
              refused == IF barred # <<>> THEN barred
                         ELSE update_user_refusal(users_collection, user_id, body)
          IN  /\ handlers' = Handled("update_user", presented, user_id, body,
                                     IF refused # <<>> THEN refused[1]
                                     ELSE Answer(200, "User updated successfully"))
              /\ users_collection' =
                     IF refused # <<>> THEN users_collection
                     ELSE [users_collection EXCEPT
                              ![user_id] = updated_document(@, body.data)]
    /\ UNCHANGED tokens
    /\ AccountsFrame

AccountsNext ==
    \/ login
    \/ verify_token
    \/ update_user

SpecAccounts == AccountsInit /\ [][AccountsNext]_vars

-----------------------------------------------------------------------------
(* C1 *)

\* the word set each title of Titles has once lowercased and stripped of punctuation
WordsOf(title) ==
    CASE title = T_abc   -> {<<"a">>, <<"b">>, <<"c">>}
      [] title = T_ABc   -> {<<"a">>, <<"b">>, <<"c">>}
      [] title = T_abcde -> {<<"a">>, <<"b">>, <<"c">>, <<"d">>, <<"e">>}
      [] title = T_abcd  -> {<<"a">>, <<"b">>, <<"c">>, <<"d">>}
      [] title = T_dbx   -> {<<"d">>, <<"b">>, <<"x">>}
      [] title = T_punct -> {}
      [] title = T_aab   -> {<<"a">>, <<"b">>}
      [] title = T_a_b_c -> {<<"a","b">>, <<"c">>}

\* |words(L) \cap words(K)| / max(|words(L)|, 1) > 0.6
OverlapExceeds(L, K) ==
    10 * Cardinality(WordsOf(L.title) \cap WordsOf(K.title))
        > 6 * (IF WordsOf(L.title) = {} THEN 1 ELSE Cardinality(WordsOf(L.title)))

OverlapIsExactly60(L, K) ==
    /\ WordsOf(L.title) # {}
    /\ 10 * Cardinality(WordsOf(L.title) \cap WordsOf(K.title))
        = 6 * Cardinality(WordsOf(L.title))

\* listing i of ps is kept iff no earlier kept listing overlaps it by more than 60%
RECURSIVE KeptAt(_, _)
KeptAt(ps, i) ==
    ~ \E k \in 1..(i - 1) : KeptAt(ps, k) /\ OverlapExceeds(ps[i], ps[k])

RECURSIVE PickFrom(_, _, _)
PickFrom(ps, keep, i) ==
    IF i > Len(ps) THEN <<>>
    ELSE (IF i \in keep THEN <<ps[i]>> ELSE <<>>) \o PickFrom(ps, keep, i + 1)

\* the listings of ps at the positions of keep, in the order of ps
Pick(ps, keep) == PickFrom(ps, keep, 1)

KeptPositions(ps) == {i \in 1..Len(ps) : KeptAt(ps, i)}

\* C1: remove_duplicates returns, in input order, exactly the listings that no
\* earlier kept listing overlaps by strictly more than 60% of the later
\* listing's own word count; dropped listings are never compared against.
C1_RemoveDuplicatesRule ==
    (mode = "remove_duplicates" /\ pc = "done")
        => unique_products = Pick(products, KeptPositions(products))

\* a call that keeps a listing sharing exactly 60% of its words with the kept
\* listing before it, and drops a third one that shares more than 60%
C1_Witness ==
    /\ mode = "remove_duplicates" /\ pc = "done"
    /\ Len(products) = 3
    /\ OverlapIsExactly60(products[2], products[1])
    /\ OverlapExceeds(products[3], products[1])
    /\ unique_products = <<products[1], products[2]>>

-----------------------------------------------------------------------------
(* C2 *)

\* Amazon results ++ Flipkart results ++ Google Shopping results
Concatenation == amazon_products \o flipkart_products \o google_products

RECURSIVE IsSubsequence(_, _)
IsSubsequence(s, t) ==
    IF s = <<>> THEN TRUE
    ELSE IF t = <<>> THEN FALSE
    ELSE IF Head(s) = Head(t) THEN IsSubsequence(Tail(s), Tail(t))
    ELSE IsSubsequence(s, Tail(t))

\* listing later is judged a duplicate of listing earlier
JudgedDuplicate(later, earlier) ==
    LET lw == TitleWords(NormalizedTitle(later.title))
        ew == TitleWords(NormalizedTitle(earlier.title))
    IN  10 * Cardinality(lw \cap ew) > 6 * Max2(Cardinality(lw), 1)

\* C2: the list search_all_platforms returns is a subsequence of Amazon's
\* listings followed by Flipkart's followed by Google Shopping's; the first
\* listing of that concatenation is retained, and every listing left out is a
\* duplicate of a retained listing that comes before it in the concatenation.
C2_OrderStable ==
    (mode = "search_all_platforms" /\ pc = "done") =>
        LET c == Concatenation
        IN  /\ IsSubsequence(unique_products, c)
            /\ c # <<>> => (unique_products # <<>> /\ Head(unique_products) = Head(c))
            /\ \A j \in 1..Len(c) :
                  c[j] \notin Range(unique_products) =>
                      \E i \in 1..(j - 1) : /\ c[i] \in Range(unique_products)
                                            /\ JudgedDuplicate(c[j], c[i])

\* all three adapters returned listings, a Flipkart listing was left out as a
\* duplicate of an Amazon one, and listings of two adapters were retained
C2_Witness ==
    /\ mode = "search_all_platforms" /\ pc = "done"
    /\ amazon_products # <<>> /\ flipkart_products # <<>> /\ google_products # <<>>
    /\ \E x \in Range(flipkart_products) : x \notin Range(unique_products)
    /\ \E x \in Range(google_products) : x \in Range(unique_products)
    /\ Head(unique_products) = Head(amazon_products)

-----------------------------------------------------------------------------
(* C3 *)

\* the adapter's call ended in a transport failure, a timeout or a missing driver
Failed(site) == site.kind \in {"error", "silent", "no_driver"}

ProductsOf(a) ==
    CASE a = "amazon"   -> amazon_products
      [] a = "flipkart" -> flipkart_products
      [] a = "google"   -> google_products

\* the listings of the adapters other than a, in the fixed adapter order
ListingsWithout(a) ==
    (IF a = "amazon" THEN <<>> ELSE amazon_products)
        \o (IF a = "flipkart" THEN <<>> ELSE flipkart_products)
        \o (IF a = "google" THEN <<>> ELSE google_products)

\* C3: when one adapter fails or times out and the other two return listings,
\* search_all_platforms does not raise, and it returns remove_duplicates of the
\* two successful adapters' listings in the fixed adapter order; the failing
\* adapter contributes no listing.
C3_PartialSourceResilience ==
    \A a \in Adapters :
        (mode = "search_all_platforms" /\ a \in finished /\ Failed(remote[a])) =>
            /\ pc # "raised"
            /\ a \notin raised
            /\ ProductsOf(a) = <<>>
            /\ (pc = "done" /\ \A b \in Adapters \ {a} : ProductsOf(b) # <<>>) =>
                   unique_products = remove_duplicates(ListingsWithout(a))

\* Flipkart timed out, Amazon and Google Shopping returned listings, and the
\* call returned listings of both
C3_Witness ==
    /\ mode = "search_all_platforms" /\ pc = "done"
    /\ remote["flipkart"] = Silent
    /\ amazon_products # <<>> /\ google_products # <<>>
    /\ \E x \in Range(unique_products) : x.retailer = "Amazon India"
    /\ \E x \in Range(unique_products) : x.retailer = "Google Shopping"

-----------------------------------------------------------------------------
(* C4 *)

\* C4: the three adapters are dispatched concurrently: no adapter's call waits
\* for another adapter's call to finish, so by the time any call has finished
\* every call has been started.
C4_ConcurrentDispatch ==
    (mode = "search_all_platforms" /\ finished # {}) => started = Adapters

-----------------------------------------------------------------------------
(* C6 *)

\* C6: every adapter call is bounded by its own timeout: a call that has been
\* made can always return, also when the site never answers.
C6_EveryCallComesBack ==
    /\ pc = "amazon_wait" => ENABLED AmazonReturns
    /\ pc = "flipkart_wait" => ENABLED FlipkartReturns
    /\ pc = "google_wait" => ENABLED GoogleReturns

-----------------------------------------------------------------------------
(* C5 *)

\* the call met a failure: the site refused or never answered, the driver did
\* not start, or (price adapters) reading the result block threw
CallFailed(call) ==
    \/ call.site.kind # "page"
    \/ /\ call.fn \in PriceFunctions
       /\ call.site.results # <<>>
       /\ Head(call.site.results).broken

IsSearchListing(x) == DOMAIN x = {"title", "price", "image_url", "retailer"}

\* C5: no adapter call propagates an exception.  A search adapter returns a
\* list of listings, the empty list when the call failed; a price adapter whose
\* call failed returns one listing with price None and the error field set.
C5_AdaptersNeverRaise ==
    mode = "adapter" =>
        /\ pc # "raised"
        /\ pc = "returned" =>
            /\ ~ adapter_outcome.raised
            /\ adapter_call.fn \in SearchFunctions =>
                /\ \A i \in DOMAIN adapter_outcome.value :
                       IsSearchListing(adapter_outcome.value[i])
                /\ CallFailed(adapter_call) => adapter_outcome.value = <<>>
            /\ (adapter_call.fn \in PriceFunctions /\ CallFailed(adapter_call)) =>
                /\ adapter_outcome.value.price = NoPrice
                /\ "error" \in DOMAIN adapter_outcome.value

\* scrape_flipkart has returned from a call the site never answered
C5_Witness ==
    /\ mode = "adapter" /\ pc = "returned"
    /\ adapter_call.fn = "scrape_flipkart"
    /\ adapter_call.site = Silent
    /\ adapter_outcome.value = ErrorListing("Flipkart")

-----------------------------------------------------------------------------
(* C7 *)

\* the result block has a title that is not the placeholder, or an image URL
\* that is not empty
Identifies(r) == r.title # None \/ (r.image # None /\ r.image # EmptyStr)

\* C7: in every search adapter the blocks that are emitted as listings are
\* exactly the processed blocks that have a non-placeholder title or a
\* non-empty image URL.
C7_EmittedIffTitleOrImage ==
    (mode = "adapter" /\ pc = "returned" /\ adapter_call.fn \in SearchFunctions
        /\ adapter_call.site.kind = "page") =>
        LET rs == Take(adapter_call.site.results, adapter_call.max_results)
        IN  Len(adapter_outcome.value)
                = Cardinality({i \in DOMAIN rs : ~ rs[i].broken /\ Identifies(rs[i])})

\* the same for search_amazon_products alone
AmazonEmitsIffTitleOrImage ==
    adapter_call.fn = "search_amazon_products" => C7_EmittedIffTitleOrImage

-----------------------------------------------------------------------------
(* C8 *)

\* the positions of the listings whose price is present
Priced(listings) == {i \in DOMAIN listings : listings[i].price # NoPrice}

\* analyze(listings) of the specification: absent with fewer than two priced
\* listings, else the minimum, the maximum, the retailer of the first listing
\* at the minimum, and the difference
ReferenceAnalysis(listings) ==
    IF Cardinality(Priced(listings)) < 2 THEN <<>>
    ELSE LET ps == {listings[i].price[1] : i \in Priced(listings)}
             lo == CHOOSE p \in ps : \A q \in ps : p <= q
             hi == CHOOSE p \in ps : \A q \in ps : q <= p
             first == CHOOSE i \in Priced(listings) :
                          /\ listings[i].price[1] = lo
                          /\ \A j \in Priced(listings) : listings[j].price[1] = lo => i <= j
         IN  <<[best_price |-> lo,
                best_retailer |-> listings[first].retailer,
                price_range |-> [min |-> lo, max |-> hi],
                savings |-> hi - lo]>>

\* C8: the analysis api_price computes is the reference analysis of the
\* listings it collected: absent with fewer than two priced listings, else
\* minimum, maximum, retailer of the first listing at the minimum, max - min.
C8_PriceAnalysis ==
    (mode = "api_price" /\ pc = "responded" /\ response.path = "compared") =>
        response.analysis = ReferenceAnalysis(response.product_details)

\* prices 100 and 150 give best 100 at the first retailer, range 100..150 and
\* savings 50 (amounts in hundredths)
C8_Witness ==
    /\ mode = "api_price" /\ pc = "responded" /\ response.path = "compared"
    /\ Len(response.product_details) = 2
    /\ response.product_details[1].price = PriceOf(10000)
    /\ response.product_details[2].price = PriceOf(15000)
    /\ response.analysis = <<[best_price |-> 10000,
                             best_retailer |-> "Amazon India",
                             price_range |-> [min |-> 10000, max |-> 15000],
                             savings |-> 5000]>>

\* one priced listing gives no analysis
C8_OnePricedListing ==
    /\ mode = "api_price" /\ pc = "responded" /\ response.path = "compared"
    /\ Cardinality(Priced(response.product_details)) = 1
    /\ response.analysis = NoAnalysis

-----------------------------------------------------------------------------
(* C9 *)

IsYoloCandidate(product) == product.detection_method = "YOLO"

\* detection i is above 0.3 and no earlier detection above 0.3 has its label,
\* letter case aside (the first such detection is the one that was emitted)
EmitsAt(i) ==
    /\ yolo_detections[i].confidence > 30
    /\ ~ \E j \in 1..(i - 1) :
            /\ yolo_detections[j].confidence > 30
            /\ Lower(yolo_detections[j].name) = Lower(yolo_detections[i].name)

\* the k-th smallest element of a set of positions
NthOf(S, k) == CHOOSE i \in S : Cardinality({j \in S : j < i}) = k - 1

\* C9: the detector-derived candidates of combine_detection_results are, in
\* order, one per detection whose confidence is strictly above 0.3 and whose
\* lowercased label has not produced a candidate before, each with the
\* confidence of its detection; a detection at or below 0.3 produces none and
\* leaves its label unseen.
C9_DetectorCandidates ==
    (mode = "combine_detection_results" /\ pc = "done") =>
        LET yolo == SelectSeq(identified_products, IsYoloCandidate)
            emitting == {i \in DOMAIN yolo_detections : EmitsAt(i)}
        IN  /\ Len(yolo) = Cardinality(emitting)
            /\ \A k \in DOMAIN yolo :
                  yolo[k].confidence = yolo_detections[NthOf(emitting, k)].confidence

\* "cup" at 0.30 is discarded and does not hide "Cup" at 0.31, which is emitted
C9_Witness ==
    /\ mode = "combine_detection_results" /\ pc = "done"
    /\ yolo_detections = <<[name |-> L_cup, confidence |-> 30],
                           [name |-> L_Cup, confidence |-> 31]>>
    /\ Len(SelectSeq(identified_products, IsYoloCandidate)) = 1
    /\ SelectSeq(identified_products, IsYoloCandidate)[1].confidence = 31

\* a label seen at 0.90 hides the same label in another letter case
C9_SeenLabelIsSkipped ==
    /\ mode = "combine_detection_results" /\ pc = "done"
    /\ yolo_detections = <<[name |-> L_Cup, confidence |-> 90],
                           [name |-> L_cup, confidence |-> 31]>>
    /\ Len(SelectSeq(identified_products, IsYoloCandidate)) = 1
    /\ SelectSeq(identified_products, IsYoloCandidate)[1].confidence = 90

-----------------------------------------------------------------------------
(* C10 *)

IsCaptionCandidate(product) == product.detection_method = "Image Caption"

\* C10: every candidate combine_detection_results derives from the caption
\* has confidence 0.7, whatever the caption, the detections and the OCR texts.
C10_CaptionConfidence ==
    (mode = "combine_detection_results" /\ pc = "done") =>
        \A i \in DOMAIN identified_products :
            IsCaptionCandidate(identified_products[i]) =>
                identified_products[i].confidence = 70

\* a caption with two keywords, next to a detector candidate and OCR text
C10_Witness ==
    /\ mode = "combine_detection_results" /\ pc = "done"
    /\ caption = C_cup_table
    /\ extracted_texts # <<>>
    /\ Len(SelectSeq(identified_products, IsCaptionCandidate)) = 2
    /\ Len(SelectSeq(identified_products, IsYoloCandidate)) >= 1
    /\ \A i \in DOMAIN identified_products :
          IsCaptionCandidate(identified_products[i]) =>
              identified_products[i].confidence = 70

-----------------------------------------------------------------------------
(* C11 *)

\* the detections that produce a candidate, whatever the caption and the texts
EmittingDetections == {i \in DOMAIN yolo_detections : EmitsAt(i)}

\* C11: the output of combine_detection_results starts with one detector
\* candidate per emitting detection, in detection order, each with the
\* confidence and the category of its detection and a name that contains the
\* detection's label; everything after them comes from the caption.  What the
\* head of the list is depends on the detections only: caption and OCR texts
\* add candidates behind it or extend names.
C11_DetectorCandidatesFirst ==
    (mode = "combine_detection_results" /\ pc = "done") =>
        LET n == Cardinality(EmittingDetections)
        IN  /\ Len(identified_products) >= n
            /\ \A k \in 1..n :
                  LET detection == yolo_detections[NthOf(EmittingDetections, k)]
                      product == identified_products[k]
                  IN  /\ product.detection_method = "YOLO"
                      /\ product.confidence = detection.confidence
                      /\ product.category = categorize_product(Lower(detection.name))
                      /\ IsSubstring(Lower(detection.name), product.name)
            /\ \A k \in (n + 1)..Len(identified_products) :
                  identified_products[k].detection_method = "Image Caption"

\* two detections at 0.31 and 0.90 stay first and in detection order, in front
\* of the caption's candidate at 0.7, with OCR text extending the names
C11_Witness ==
    /\ mode = "combine_detection_results" /\ pc = "done"
    /\ yolo_detections = <<[name |-> L_cup, confidence |-> 31],
                           [name |-> L_cell_phone, confidence |-> 90]>>
    /\ caption = C_cup_table
    /\ extracted_texts = <<X_sony>>
    /\ Len(identified_products) = 3
    /\ identified_products[1].confidence = 31
    /\ identified_products[2].confidence = 90
    /\ identified_products[3].detection_method = "Image Caption"
    /\ identified_products[1].name # L_cup

-----------------------------------------------------------------------------
(* C18 *)

\* C18: every candidate combine_detection_results returns has a non-empty
\* name, a detection without a label included.
C18_NamesNonEmpty ==
    (mode = "combine_detection_results" /\ pc = "done") =>
        \A i \in DOMAIN identified_products : identified_products[i].name # EmptyStr

\* a detection above the floor without a label, nothing to enrich it with
C18_UnnamedDetection ==
    /\ mode = "combine_detection_results" /\ pc = "done"
    /\ yolo_detections = <<[name |-> EmptyStr, confidence |-> 90]>>
    /\ extracted_texts = <<>>
    /\ Len(identified_products) = 1
    /\ identified_products[1].name = EmptyStr

-----------------------------------------------------------------------------
(* C19 *)

\* the fragments of the OCR texts that contain a known brand
BrandFragments == {t \in DOMAIN extracted_texts : BrandsIn(Lower(extracted_texts[t])) # {}}

\* the fragments that contain a token fit for a model number
ModelFragments == {t \in DOMAIN extracted_texts : ModelMatch(Upper(extracted_texts[t])) # <<>>}

\* the brand the earliest fragment with a known brand names, "" without one
FirstBrand ==
    IF BrandFragments = {} THEN EmptyStr
    ELSE LET text == Lower(extracted_texts[NthOf(BrandFragments, 1)])
         IN  Title(known_brands[NthOf(BrandsIn(text), 1)])

\* the first fitting token of the earliest fragment that has one, "" without one
FirstModel ==
    IF ModelFragments = {} THEN EmptyStr
    ELSE ModelMatch(Upper(extracted_texts[NthOf(ModelFragments, 1)]))

\* C19: extract_brand_info reports the brand of the earliest fragment that
\* contains a known brand and the first model token of the earliest fragment
\* that has one: first match wins for both.
C19_FirstMatchWins ==
    (mode = "combine_detection_results" /\ pc = "done") =>
        /\ brand_info.brand = FirstBrand
        /\ brand_info.model = FirstModel

\* the part of C19 about the model number alone
C19_FirstModelWins ==
    (mode = "combine_detection_results" /\ pc = "done") =>
        brand_info.model = FirstModel

\* two fragments with a model token each: the token of the first is reported
C19_TwoModelFragments ==
    /\ mode = "combine_detection_results" /\ pc = "done"
    /\ Cardinality(ModelFragments) = 2
    /\ brand_info.model = FirstModel
    /\ brand_info.model # ModelMatch(Upper(extracted_texts[2]))

-----------------------------------------------------------------------------
(* C20 *)

\* the tokens name enrichment takes from the OCR texts
OcrTokens ==
    (Range(WordsOfTexts(extracted_texts)) \cup {brand_info.brand, brand_info.model})
        \ {EmptyStr}

\* how often a token occurs among the words of a name
Occurrences(token, name) ==
    Cardinality({w \in DOMAIN Split(name) : Split(name)[w] = token})

\* C20: after combine_detection_results no token taken from the OCR texts
\* occurs twice in the name of a candidate.
C20_TokensAppendedOnce ==
    (mode = "combine_detection_results" /\ pc = "done") =>
        \A i \in DOMAIN identified_products :
            \A token \in OcrTokens : Occurrences(token, identified_products[i].name) <= 1

-----------------------------------------------------------------------------
(* C15 *)

\* C15: two calls of search_all_platforms with the same query and the same
\* answers of the three sites return the same list of listings, whatever
\* calls came before or in between.
C15_SameAnswersSameListings ==
    mode = "engine" =>
        \A i, j \in DOMAIN invoked :
            (invoked[i].arg = invoked[j].arg /\ invoked[i].sites = invoked[j].sites)
                => invoked[i].returned = invoked[j].returned

\* the same call before and after a call with other listings
C15_Witness ==
    /\ mode = "engine"
    /\ Len(invoked) = 3
    /\ invoked[1].arg = invoked[3].arg /\ invoked[1].sites = invoked[3].sites
    /\ invoked[1].sites = OnlyAmazon /\ invoked[2].sites = AllAnswer
    /\ Len(invoked[1].returned) = 2 /\ invoked[2].returned # invoked[1].returned
    /\ invoked[3].returned = invoked[1].returned

-----------------------------------------------------------------------------
(* C12 *)

Providers == {"detect_with_yolo", "generate_image_caption", "extract_text_from_image"}

AdapterCallNames ==
    {"search_all_platforms", "search_amazon_products", "search_flipkart_products",
     "search_google_shopping"}

\* the positions of the record of calls that hold a call of one of names
CallsOf(names) == {i \in DOMAIN invoked : invoked[i].call \in names}

\* the request went through analyze_and_identify_products and has its answer
AnalysisAnswered ==
    /\ mode = "request" /\ pc = "responded"
    /\ request.image # "absent"
    /\ \/ request.endpoint = "enhanced_detect"
       \/ request.endpoint = "upload_search" /\ ~ has_query(request.search_query)

\* the image gave no detection above 0.3, an empty caption and no text
NoSignal ==
    /\ \A i \in DOMAIN yolo_detections : yolo_detections[i].confidence <= 30
    /\ caption = EmptyStr
    /\ extracted_texts = <<>>

\* C12: with no detection above 0.3, an empty caption and no OCR text,
\* analyze_and_identify_products returns no identified product and the summary
\* that no products were detected, without an error field and without a call
\* to a retailer adapter, and the request is answered as a success.
C12_EmptySignalPath ==
    (AnalysisAnswered /\ NoSignal) =>
        /\ results.identified_products = <<>>
        /\ results.analysis_summary = <<NoProductsDetected>>
        /\ "error" \notin DOMAIN results
        /\ CallsOf(AdapterCallNames) = {}
        /\ response = Success(results)

\* a detection at 0.30 is all the image gives
C12_Witness ==
    /\ AnalysisAnswered /\ NoSignal
    /\ request.endpoint = "enhanced_detect"
    /\ Len(yolo_detections) = 1
    /\ results.identified_products = <<>>
    /\ results.analysis_summary = <<NoProductsDetected>>
    /\ response.success

-----------------------------------------------------------------------------
(* C14 *)

\* the providers whose model could not run on the image of the request
FailedProviders ==
    (IF detect_with_yolo_try(request.image, request.yolo).raised
     THEN {"detect_with_yolo"} ELSE {})
    \cup (IF \/ ~ request.blip.loaded
             \/ generate_image_caption_try(request.image, request.blip).raised
          THEN {"generate_image_caption"} ELSE {})
    \cup (IF \/ ~ request.ocr.loaded
             \/ extract_text_from_image_try(request.image, request.ocr).raised
          THEN {"extract_text_from_image"} ELSE {})

\* C14: whichever providers fail, analyze_and_identify_products gives each of
\* them the empty signal, runs fusion and one search per candidate on what is
\* left, and returns a result without an error field.
C14_ProviderFailureDegrades ==
    AnalysisAnswered =>
        /\ "detect_with_yolo" \in FailedProviders => yolo_detections = <<>>
        /\ "generate_image_caption" \in FailedProviders => caption = EmptyStr
        /\ "extract_text_from_image" \in FailedProviders => extracted_texts = <<>>
        /\ Cardinality(CallsOf(Providers)) = 3
        /\ Cardinality(CallsOf({"combine_detection_results"})) = 1
        /\ Cardinality(CallsOf({"search_all_platforms"})) = Len(identified_products)
        /\ "error" \notin DOMAIN results
        /\ Len(results.identified_products) = Len(identified_products)
        /\ response = Success(results)

\* the detector fails, the caption still gives two candidates, both searched
C14_Witness ==
    /\ AnalysisAnswered
    /\ FailedProviders = {"detect_with_yolo"}
    /\ yolo_detections = <<>>
    /\ Len(results.identified_products) = 2
    /\ Cardinality(CallsOf({"search_all_platforms"})) = 2
    /\ "error" \notin DOMAIN results

\* all three providers fail and the request is still answered
C14_AllProvidersFail ==
    /\ AnalysisAnswered
    /\ FailedProviders = Providers
    /\ request.image = "picture"
    /\ results.identified_products = <<>>
    /\ response.success

-----------------------------------------------------------------------------
(* C17 *)

\* C17: search_uploaded_image with a non-empty query calls no provider, calls
\* search_all_platforms once with the query as it came, and reports as
\* total_found the number of listings returned; the request is a success.
C17_QueryBypassesFusion ==
    (/\ mode = "request" /\ pc = "responded"
     /\ request.endpoint = "upload_search"
     /\ request.image # "absent"
     /\ request.search_query # None /\ request.search_query # EmptyStr) =>
        /\ CallsOf(Providers \cup {"combine_detection_results"}) = {}
        /\ Cardinality(CallsOf({"search_all_platforms"})) = 1
        /\ \A i \in CallsOf({"search_all_platforms"}) :
              /\ invoked[i].arg = request.search_query
              /\ invoked[i].returned = results.search_results
        /\ results.search_query = request.search_query
        /\ results.total_found = Len(results.search_results)
        /\ response = Success(results)

\* a query, two listings found
C17_Witness ==
    /\ mode = "request" /\ pc = "responded"
    /\ request.endpoint = "upload_search"
    /\ request.image = "picture"
    /\ request.search_query = Q_phone
    /\ CallsOf(Providers) = {}
    /\ results.total_found = 2
    /\ Len(results.search_results) = 2
    /\ response.success

\* a query of one blank is a query too
C17_BlankQuery ==
    /\ mode = "request" /\ pc = "responded"
    /\ request.endpoint = "upload_search"
    /\ request.search_query = Q_blank
    /\ CallsOf(Providers) = {}
    /\ Cardinality(CallsOf({"search_all_platforms"})) = 1

-----------------------------------------------------------------------------
(* C13 *)

\* the request lacks its image bytes, or its query is the empty string
InvalidInput ==
    \/ /\ request.endpoint \in {"enhanced_detect", "upload_search"}
       /\ request.image \in {"absent", "empty"}
    \/ /\ request.endpoint \in {"upload_search", "search_product"}
       /\ request.search_query # None
       /\ Strip(request.search_query) = EmptyStr

\* C13: at each of the three entry points a request without image bytes or
\* with an empty query is rejected before any provider or adapter is called,
\* and no other request ends as a failure.
C13_InvalidInputRejected ==
    (mode = "request" /\ pc = "responded") =>
        /\ InvalidInput => (~ response.success /\ invoked = <<>>)
        /\ ~ response.success => InvalidInput

\* the part of C13 that api_search_product keeps: an empty or blank query is
\* answered 400 and nothing is called
C13_TextSearchRejectsEmptyQuery ==
    (mode = "request" /\ pc = "responded" /\ request.endpoint = "search_product"
     /\ Strip(request.search_query) = EmptyStr) =>
        (response = Failure(400, "Search query is required") /\ invoked = <<>>)

\* an upload-search request with a picture and the empty query is analysed
C13_EmptyQueryAnalysed ==
    /\ mode = "request" /\ pc = "responded"
    /\ request.endpoint = "upload_search"
    /\ request.image = "picture"
    /\ request.search_query = EmptyStr
    /\ CallsOf(Providers) # {}
    /\ response.success

\* a request whose image part has no bytes is analysed and answered a success
C13_EmptyImageAnalysed ==
    /\ mode = "request" /\ pc = "responded"
    /\ request.endpoint = "enhanced_detect"
    /\ request.image = "empty"
    /\ Cardinality(CallsOf(Providers)) = 3
    /\ response.success

-----------------------------------------------------------------------------
(* C16 *)

\* every call at a position of before comes before every call at one of after
AllBefore(before, after) == \A i \in before, j \in after : i < j

\* C16: a request answered by analyze_and_identify_products has called the
\* three providers, then fusion, then the aggregator with its deduplication
\* once per candidate, then the price analysis, and only then responds.
C16_StagesInOrder ==
    AnalysisAnswered =>
        /\ Cardinality(CallsOf(Providers)) = 3
        /\ Cardinality(CallsOf({"combine_detection_results"})) = 1
        /\ AllBefore(CallsOf(Providers), CallsOf({"combine_detection_results"}))
        /\ AllBefore(CallsOf({"combine_detection_results"}),
                     CallsOf(AdapterCallNames \cup {"remove_duplicates"}))
        /\ Cardinality(CallsOf({"search_all_platforms"})) = Len(identified_products)
        /\ Cardinality(CallsOf({"remove_duplicates"})) = Len(identified_products)
        /\ CallsOf({"price_analysis"}) # {}
        /\ AllBefore(CallsOf(AdapterCallNames \cup {"remove_duplicates"}),
                     CallsOf({"price_analysis"}))

\* C16 without the price analysis: providers, then fusion, then one search
\* with deduplication per candidate, then the response
C16_WithoutPriceAnalysis ==
    AnalysisAnswered =>
        /\ Cardinality(CallsOf(Providers)) = 3
        /\ Cardinality(CallsOf({"combine_detection_results"})) = 1
        /\ AllBefore(CallsOf(Providers), CallsOf({"combine_detection_results"}))
        /\ AllBefore(CallsOf({"combine_detection_results"}),
                     CallsOf(AdapterCallNames \cup {"remove_duplicates"}))
        /\ Cardinality(CallsOf({"search_all_platforms"})) = Len(identified_products)
        /\ Cardinality(CallsOf({"remove_duplicates"})) = Len(identified_products)

-----------------------------------------------------------------------------
(* C26 *)

\* C26: remove_duplicates gives back its own output unchanged, and in that
\* output no listing has more than 60% of its title words in the title of a
\* listing in front of it.
C26_Idempotent ==
    (mode = "remove_duplicates" /\ pc = "done") =>
        /\ remove_duplicates(unique_products) = unique_products
        /\ \A i, j \in DOMAIN unique_products :
              i < j => ~ OverlapExceeds(unique_products[j], unique_products[i])

\* a call that dropped one of three listings and kept two that differ in
\* letter case and punctuation from what was dropped
C26_Witness ==
    /\ mode = "remove_duplicates" /\ pc = "done"
    /\ Len(products) = 3
    /\ products[1].title = T_abc /\ products[2].title = T_ABc
    /\ unique_products = <<products[1], products[3]>>
    /\ remove_duplicates(unique_products) = unique_products

-----------------------------------------------------------------------------
(* C21 *)

\* the runs of \w characters of a text that are 3 to 10 long and made of
\* uppercase letters and digits only, as the text spells them
UppercaseRuns(text) ==
    {run \in Range(WordRuns(text)) :
        /\ Len(run) >= 3 /\ Len(run) <= 10
        /\ \A i \in DOMAIN run : IsUpperOrDigit(run[i])}

\* C21: the model number extract_brand_info reports is an uppercase
\* alphanumeric run of 3 to 10 characters of one of the recognized texts, as
\* that text spells it; a lowercase or mixed-case word is never the model.
C21_ModelFromTextItself ==
    (mode = "combine_detection_results" /\ pc = "done"
        /\ brand_info.model # EmptyStr) =>
        \E t \in DOMAIN extracted_texts :
            brand_info.model \in UppercaseRuns(extracted_texts[t])

-----------------------------------------------------------------------------
(* C23 *)

\* C23: the category of every returned candidate is the category
\* categorize_product gives to the name the candidate is returned with.
C23_CategoryOfReturnedName ==
    (mode = "combine_detection_results" /\ pc = "done") =>
        \A i \in DOMAIN identified_products :
            identified_products[i].category =
                categorize_product(identified_products[i].name)

-----------------------------------------------------------------------------
(* C25 *)

\* the keywords of the categories from position c on, category by category
RECURSIVE KeywordsFrom(_)
KeywordsFrom(c) ==
    IF c > Len(product_categories) THEN <<>>
    ELSE product_categories[c].keywords \o KeywordsFrom(c + 1)

\* the keywords that are words of the lowercased caption, in the order the
\* categories and their keywords are iterated
KeywordsInOrder(cap) ==
    LET caption_words == Range(Split(Lower(cap)))
        IsCaptionWord(keyword) == keyword \in caption_words
    IN  SelectSeq(KeywordsFrom(1), IsCaptionWord)

\* C25: the candidates are those of the caption keywords taken in category and
\* keyword iteration order, so one caption has one order.
C25_CaptionKeywordOrder ==
    (mode = "combine_detection_results" /\ pc = "done") =>
        identified_products =
            combine_detection_results(yolo_detections, caption, extracted_texts,
                                      KeywordsInOrder(caption))

-----------------------------------------------------------------------------
(* C28 *)

\* C28: when the request names a storage or a colour, the analysis of the
\* response is the analysis of the listings that pass filter_by_specs.
C28_AnalysisOfFilteredListings ==
    (mode = "api_price" /\ pc = "responded" /\ response.path = "compared"
        /\ (Truthy(request.storage) \/ Truthy(request.color))) =>
        response.analysis =
            price_analysis(filter_by_specs(response.product_details,
                                           request.storage, request.color))

-----------------------------------------------------------------------------
(* C24 *)

\* the first result block of a site shows a price text that float() rejects
\* once the rupee sign and the commas are removed
ShowsUnparseablePrice(site) ==
    /\ site.kind = "page" /\ site.results # <<>>
    /\ ~ Head(site.results).broken
    /\ Head(site.results).title # None
    /\ Head(site.results).price # None
    /\ ParseFloat(Remove(Remove(Strip(Head(site.results).price), Rupee), ",")) = <<>>

\* the listing keeps the title of the block, has no numeric price, and carries
\* the price text of the block in one of its fields
KeepsRawPrice(listing, block) ==
    /\ listing.price = NoPrice
    /\ listing.title = block.title
    /\ \E f \in DOMAIN listing \ {"retailer", "currency", "error"} :
          listing[f] = block.price

\* C24: a price adapter that reads a price text it cannot parse still returns
\* the listing, without a numeric price, with the raw price text and with the
\* title it extracted.
C24_RawPriceKept ==
    (mode = "api_price" /\ pc = "responded" /\ response.path # "rejected") =>
        /\ ("amazon" \in request.sites /\ ShowsUnparseablePrice(request.amazon_site)) =>
              KeepsRawPrice(response.product_details[1],
                            Head(request.amazon_site.results))
        /\ ("flipkart" \in request.sites /\ ShowsUnparseablePrice(request.flipkart_site)) =>
              KeepsRawPrice(response.product_details[Len(response.product_details)],
                            Head(request.flipkart_site.results))

-----------------------------------------------------------------------------
(* C22 *)

\* the first text of the list that is neither missing nor empty, else the
\* placeholder
RECURSIVE FirstNonEmpty(_, _)
FirstNonEmpty(matches, placeholder) ==
    IF matches = <<>> THEN placeholder
    ELSE IF Truthy(Head(matches)) THEN Head(matches)
    ELSE FirstNonEmpty(Tail(matches), placeholder)

\* C22: the title and the price of a listing are the texts of the first
\* selector of the list that gives a non-empty text, and the placeholder when
\* no selector does.
C22_FirstNonEmptyMatch ==
    (mode = "selectors" /\ pc = "returned") =>
        /\ (adapter_call.fn = "search_amazon_products" /\ adapter_outcome.value # <<>>) =>
              /\ adapter_outcome.value[1].price =
                     FirstNonEmpty(adapter_call.price_matches, NA)
              /\ adapter_outcome.value[1].title =
                     FirstNonEmpty(adapter_call.title_matches, AmazonProduct)
        /\ (adapter_call.fn = "scrape_flipkart"
               /\ FirstNonEmpty(adapter_call.price_matches, None) = P100) =>
              /\ adapter_outcome.value.price = PriceOf(10000)
              /\ adapter_outcome.value.title =
                     FirstNonEmpty(adapter_call.title_matches, Unknown)

-----------------------------------------------------------------------------
(* C27 *)

\* C27: when a call of search_google_shopping has come back, no Chrome
\* session it started is still open.
C27_SessionClosedOnReturn ==
    (mode = "adapter" /\ pc \in {"returned", "raised"}
        /\ adapter_call.fn = "search_google_shopping") =>
        driver_sessions = 0

-----------------------------------------------------------------------------
(* C29 *)

\* C29: whatever the interleaving of the setup_admin requests, the collection
\* never holds more than one Admin.
C29_AtMostOneAdmin ==
    mode = "setup_admin" => Cardinality(WithRole(users_collection, "Admin")) <= 1

-----------------------------------------------------------------------------
(* C30 *)

\* the users whose status is Banned; a status becomes Banned only in update_user
Banned == {u \in DOMAIN users_collection : users_collection[u].status = "Banned"}

\* C30: a request of a banned user is refused: a login with the user's email
\* is answered 403 without a token, and a route behind token_required does
\* not answer 200 to a token of that user.
C30_BannedUserRejected ==
    (mode = "accounts" /\ handlers # <<>>) =>
        /\ (handlers[1].route = "login" /\ handlers[1].body.json
               /\ WithEmail(users_collection, Strip(Lower(handlers[1].body.email)))
                      \cap Banned # {}) =>
              /\ handlers[1].answer.status = 403
              /\ handlers[1].answer.token = NoToken
        /\ (handlers[1].route = "verify_token" /\ handlers[1].token.kind = "jwt"
               /\ handlers[1].token.user_id \in Banned) =>
              handlers[1].answer.status # 200

====
